---------------------------- MODULE Spec2Model ----------------------------
(***************************************************************************)
(* Download cache, deduplication, validation, classification and placement *)
(* of the IR/NAM harvesting scripts (scripts/mega_download.py,             *)
(* scripts/blitz_download.py, scripts/download_and_organize.py).           *)
(*                                                                         *)
(* Texts (paths, file names, cache keys) are TLA+ strings handled          *)
(* character by character, as Python handles them.  A file's bytes are a   *)
(* record: its size, the two 4-byte tags of its first 12 bytes and an      *)
(* identity that stands for the rest of the content.                       *)
(***************************************************************************)
EXTENDS Integers, Sequences, FiniteSets, TLC

(***************************************************************************)
(* Text helpers: the str methods and pathlib accessors the scripts use.    *)
(***************************************************************************)
UpperChars == "ABCDEFGHIJKLMNOPQRSTUVWXYZ"

LowerChars == "abcdefghijklmnopqrstuvwxyz"

DigitChars == "0123456789"

CharAt(t, i) == SubSeq(t, i, i)

IndexIn(c, alphabet) ==
    IF \E k \in 1..Len(alphabet) : CharAt(alphabet, k) = c
    THEN CHOOSE k \in 1..Len(alphabet) : CharAt(alphabet, k) = c
    ELSE 0

IsDigit(c) == IndexIn(c, DigitChars) > 0

IsAlnum(c) ==
    IndexIn(c, DigitChars) > 0 \/ IndexIn(c, LowerChars) > 0 \/ IndexIn(c, UpperChars) > 0

IsWordChar(c) == IsAlnum(c) \/ c = "_"

LowerChar(c) ==
    IF IndexIn(c, UpperChars) > 0 THEN CharAt(LowerChars, IndexIn(c, UpperChars)) ELSE c

UpperChar(c) ==
    IF IndexIn(c, LowerChars) > 0 THEN CharAt(UpperChars, IndexIn(c, LowerChars)) ELSE c

RECURSIVE lower(_)
lower(t) == IF Len(t) = 0 THEN "" ELSE LowerChar(CharAt(t, 1)) \o lower(SubSeq(t, 2, Len(t)))

capitalize(t) ==
    IF Len(t) = 0 THEN "" ELSE UpperChar(CharAt(t, 1)) \o lower(SubSeq(t, 2, Len(t)))

StartsAt(t, i, lit) ==
    /\ i >= 1
    /\ i + Len(lit) - 1 <= Len(t)
    /\ SubSeq(t, i, i + Len(lit) - 1) = lit

Contains(t, lit) == \E i \in 1..(Len(t) + 1) : StartsAt(t, i, lit)

RECURSIVE replace(_, _, _)
replace(t, old, new) ==
    IF Len(t) = 0 THEN ""
    ELSE IF StartsAt(t, 1, old) THEN new \o replace(SubSeq(t, Len(old) + 1, Len(t)), old, new)
    ELSE CharAt(t, 1) \o replace(SubSeq(t, 2, Len(t)), old, new)

RECURSIVE lstrip(_, _)
lstrip(t, c) == IF Len(t) > 0 /\ CharAt(t, 1) = c THEN lstrip(SubSeq(t, 2, Len(t)), c) ELSE t

RECURSIVE rstrip(_, _)
rstrip(t, c) ==
    IF Len(t) > 0 /\ CharAt(t, Len(t)) = c THEN rstrip(SubSeq(t, 1, Len(t) - 1), c) ELSE t

strip(t, c) == rstrip(lstrip(t, c), c)

RECURSIVE split(_, _)
split(t, c) ==
    IF \E i \in 1..Len(t) : CharAt(t, i) = c
    THEN LET i == CHOOSE k \in 1..Len(t) :
                      CharAt(t, k) = c /\ \A j \in 1..(k - 1) : CharAt(t, j) # c
         IN  <<SubSeq(t, 1, i - 1)>> \o split(SubSeq(t, i + 1, Len(t)), c)
    ELSE <<t>>

RECURSIVE join(_, _)
join(sep, parts) ==
    IF Len(parts) = 0 THEN ""
    ELSE IF Len(parts) = 1 THEN parts[1]
    ELSE parts[1] \o sep \o join(sep, Tail(parts))

RECURSIVE str(_)
str(n) == IF n < 10 THEN CharAt(DigitChars, n + 1) ELSE str(n \div 10) \o CharAt(DigitChars, (n % 10) + 1)

LastIndex(t, c) ==
    IF \E i \in 1..Len(t) : CharAt(t, i) = c
    THEN CHOOSE i \in 1..Len(t) : CharAt(t, i) = c /\ \A j \in (i + 1)..Len(t) : CharAt(t, j) # c
    ELSE 0

\* pathlib: the last component of a path.
PathName(p) ==
    LET q == rstrip(p, "/")
    IN  IF q = "." THEN "" ELSE SubSeq(q, LastIndex(q, "/") + 1, Len(q))

\* pathlib: the path without its last component ("." when it has one component).
PathParent(p) ==
    LET q == rstrip(p, "/")
        i == LastIndex(q, "/")
    IN  IF i = 0 THEN "." ELSE IF i = 1 THEN "/" ELSE rstrip(SubSeq(q, 1, i - 1), "/")

\* pathlib: the suffix starts at the last dot of the name, unless that dot
\* opens or closes the name.
PathSuffix(p) ==
    LET n == PathName(p)
        i == LastIndex(n, ".")
    IN  IF i > 1 /\ i < Len(n) THEN SubSeq(n, i, Len(n)) ELSE ""

PathStem(p) ==
    LET n == PathName(p)
        i == LastIndex(n, ".")
    IN  IF i > 1 /\ i < Len(n) THEN SubSeq(n, 1, i - 1) ELSE n

(***************************************************************************)
(* Regular expressions (Python's re), as far as the scripts' patterns go.  *)
(* A pattern is a tree; Ends(p, t, i) is the set of positions where a      *)
(* match of p that starts before character i of t can end.                 *)
(***************************************************************************)
L(s) == <<"lit", s>>

AnyChar == <<"any">>

WordBoundary == <<"wb">>

Space == <<"space">>

Digit == <<"digit">>

Opt(p) == <<"opt", p>>

Star(p) == <<"star", p>>

Cat(ps) == <<"cat", ps>>

Alt(ps) == <<"alt", ps>>

IsSpaceChar(c) == c = " "

AtWordBoundary(t, i) ==
    LET before == i > 1 /\ IsWordChar(CharAt(t, i - 1))
        after  == i <= Len(t) /\ IsWordChar(CharAt(t, i))
    IN  before # after

RECURSIVE Ends(_, _, _)
RECURSIVE EndsCat(_, _, _)
RECURSIVE EndsStar(_, _, _)
Ends(p, t, i) ==
    CASE p[1] = "lit"   -> IF StartsAt(t, i, p[2]) THEN {i + Len(p[2])} ELSE {}
      [] p[1] = "any"   -> IF i <= Len(t) THEN {i + 1} ELSE {}
      [] p[1] = "space" -> IF i <= Len(t) /\ IsSpaceChar(CharAt(t, i)) THEN {i + 1} ELSE {}
      [] p[1] = "digit" -> IF i <= Len(t) /\ IsDigit(CharAt(t, i)) THEN {i + 1} ELSE {}
      [] p[1] = "wb"    -> IF AtWordBoundary(t, i) THEN {i} ELSE {}
      [] p[1] = "opt"   -> {i} \cup Ends(p[2], t, i)
      [] p[1] = "star"  -> EndsStar(p[2], t, {i})
      [] p[1] = "alt"   -> UNION {Ends(p[2][k], t, i) : k \in 1..Len(p[2])}
      [] p[1] = "cat"   -> EndsCat(p[2], t, {i})

EndsCat(ps, t, from) ==
    IF Len(ps) = 0 \/ from = {} THEN from
    ELSE EndsCat(Tail(ps), t, UNION {Ends(ps[1], t, j) : j \in from})

EndsStar(p, t, reached) ==
    LET more == reached \cup UNION {Ends(p, t, j) : j \in reached}
    IN  IF more = reached THEN reached ELSE EndsStar(p, t, more)

\* re.search(p, t) is not None
search(p, t) == \E i \in 1..(Len(t) + 1) : Ends(p, t, i) # {}

\* any(re.search(p, t) for p in pats)
SearchAny(pats, t) == \E k \in 1..Len(pats) : search(pats[k], t)

\* re.sub(alternation, "", t, flags=re.I): scanning from the left, at each
\* position the first alternative (in the pattern's order) that matches there
\* is removed; alts are lower-case and are matched against lower(t).
RECURSIVE SubIgnoreCase(_, _)
SubIgnoreCase(alts, t) ==
    IF Len(t) = 0 THEN ""
    ELSE IF \E k \in 1..Len(alts) : Ends(alts[k], lower(t), 1) # {}
    THEN LET k == CHOOSE k \in 1..Len(alts) :
                      /\ Ends(alts[k], lower(t), 1) # {}
                      /\ \A j \in 1..(k - 1) : Ends(alts[j], lower(t), 1) = {}
             e == CHOOSE e \in Ends(alts[k], lower(t), 1) : TRUE
         IN  SubIgnoreCase(alts, SubSeq(t, e, Len(t)))
    ELSE CharAt(t, 1) \o SubIgnoreCase(alts, SubSeq(t, 2, Len(t)))

\* re.sub(r"_+", "_", t)
RECURSIVE CollapseUnderscores(_)
CollapseUnderscores(t) ==
    IF Len(t) = 0 THEN ""
    ELSE IF CharAt(t, 1) = "_"
    THEN "_" \o CollapseUnderscores(lstrip(t, "_"))
    ELSE CharAt(t, 1) \o CollapseUnderscores(SubSeq(t, 2, Len(t)))

\* re.sub(r"[^a-zA-Z0-9]", "", t)
RECURSIVE KeepAlnum(_)
KeepAlnum(t) ==
    IF Len(t) = 0 THEN ""
    ELSE (IF IsAlnum(CharAt(t, 1)) THEN CharAt(t, 1) ELSE "") \o KeepAlnum(SubSeq(t, 2, Len(t)))

\* re.sub(r"[\(\)\[\]]", "", t)
RECURSIVE DropBrackets(_)
DropBrackets(t) ==
    IF Len(t) = 0 THEN ""
    ELSE (IF CharAt(t, 1) \in {"(", ")", "[", "]"} THEN "" ELSE CharAt(t, 1))
         \o DropBrackets(SubSeq(t, 2, Len(t)))

(***************************************************************************)
(* Validator (mega_download.py).  A file on disk is a record: present (the *)
(* path exists), readable (open succeeds) and its bytes.  Bytes are        *)
(* [size, tag1, tag2, id]: tag1 is bytes 0..3 and tag2 bytes 8..11 (both   *)
(* "" when the file is shorter than 12 bytes), id stands for the rest.     *)
(***************************************************************************)
MinSize == 100

HeaderLen == 12

is_valid_wav(f) ==
    IF ~f.present \/ ~f.readable THEN FALSE
    ELSE IF f.bytes.size < HeaderLen THEN FALSE
    ELSE f.bytes.tag1 = "RIFF" /\ f.bytes.tag2 = "WAVE"

\* An is_valid that does not look at the header of a .wav file.
is_valid_headless(path, f) ==
    IF ~f.present THEN FALSE
    ELSE IF f.bytes.size < MinSize THEN FALSE
    ELSE lower(PathSuffix(path)) \in {".wav", ".nam"}

\* An is_valid that accepts every file that exists.
is_valid_lenient(path, f) == f.present

is_valid(path, f) ==
    IF ~f.present THEN FALSE
    ELSE IF f.bytes.size < MinSize THEN FALSE
    ELSE IF lower(PathSuffix(path)) = ".wav" THEN is_valid_wav(f)
    ELSE lower(PathSuffix(path)) = ".nam"

VALID_EXT == {".wav", ".nam"}

\* is_valid of blitz_download.py: the same tests, but p.stat() stands outside
\* any try, so a missing file raises.  The result and whether it raised.
blitz_is_valid(path, f) ==
    IF ~f.present THEN [raised |-> TRUE, ret |-> FALSE]
    ELSE IF f.bytes.size < MinSize THEN [raised |-> FALSE, ret |-> FALSE]
    ELSE IF lower(PathSuffix(path)) = ".wav" THEN [raised |-> FALSE, ret |-> is_valid_wav(f)]
    ELSE [raised |-> FALSE, ret |-> lower(PathSuffix(path)) = ".nam"]

(***************************************************************************)
(* Classifier (mega_download.py): the ordered pattern tables, categorize   *)
(* and clean_filename.                                                     *)
(***************************************************************************)
BRANDS ==
    <<
       <<"Marshall", <<L("marshall"), L("jcm"), L("jvm"), L("plexi"), L("1959"), L("1987"), L("2203"), L("2204"), L("dsl"), L("jmp")>>>>,
       <<"Fender", <<L("fender"), L("twin"), Cat(<<L("deluxe"), AnyChar, L("reverb")>>), L("bassman"), L("princeton"), L("champ"), L("vibrolux")>>>>,
       <<"Mesa", <<L("mesa"), L("boogie"), L("rectifier"), L("recto"), Cat(<<L("dual"), AnyChar, L("rec")>>), Cat(<<L("triple"), AnyChar, L("rec")>>), Cat(<<L("mark"), AnyChar, Alt(<<L("iv"), L("v"), L("ii"), L("iii")>>)>>), L("lonestar")>>>>,
       <<"Vox", <<L("vox"), Cat(<<L("ac"), Opt(AnyChar), L("30")>>), Cat(<<L("ac"), Opt(AnyChar), L("15")>>)>>>>,
       <<"Orange", <<L("orange"), L("rockerverb"), L("thunderverb"), Cat(<<L("tiny"), AnyChar, L("terror")>>)>>>>,
       <<"Peavey", <<L("peavey"), L("5150"), L("6505"), L("invective")>>>>,
       <<"EVH", <<Cat(<<WordBoundary, L("evh"), WordBoundary>>), L("stealth")>>>>,
       <<"Bogner", <<L("bogner"), L("uberschall"), L("ecstasy"), L("shiva")>>>>,
       <<"Soldano", <<L("soldano"), L("slo")>>>>,
       <<"Diezel", <<L("diezel"), L("herbert"), L("vh4")>>>>,
       <<"Friedman", <<L("friedman"), Cat(<<L("be"), Opt(AnyChar), L("100")>>), Cat(<<L("dirty"), AnyChar, L("shirley")>>), L("butterslax")>>>>,
       <<"Engl", <<L("engl"), L("powerball"), L("fireball"), L("savage")>>>>,
       <<"Ampeg", <<L("ampeg"), L("svt"), Cat(<<L("b"), Opt(L("-")), L("15")>>), L("portaflex")>>>>,
       <<"Darkglass", <<L("darkglass"), L("b7k")>>>>,
       <<"Hiwatt", <<L("hiwatt")>>>>,
       <<"Suhr", <<Cat(<<WordBoundary, L("suhr"), WordBoundary>>), L("badger")>>>>,
       <<"Hughes_Kettner", <<Cat(<<L("hughes"), Star(AnyChar), L("kettner")>>), L("triamp"), L("tubemeister")>>>>,
       <<"Laney", <<L("laney"), L("ironheart")>>>>,
       <<"Revv", <<Cat(<<WordBoundary, L("revv"), WordBoundary>>), L("generator")>>>>,
       <<"Victory", <<L("victory"), L("kraken")>>>>,
       <<"Celestion", <<L("celestion"), L("v30"), Cat(<<L("vintage"), AnyChar, L("30")>>), L("greenback"), L("creamback"), L("g12"), L("alnico")>>>>,
       <<"Eminence", <<L("eminence"), Cat(<<L("swamp"), AnyChar, L("thang")>>), L("legend")>>>>,
       <<"Jensen", <<L("jensen")>>>>,
       <<"Randall", <<L("randall"), L("satan")>>>>,
       <<"Blackstar", <<L("blackstar"), Cat(<<L("ht"), Opt(AnyChar), L("club")>>)>>>>,
       <<"Two_Rock", <<Cat(<<L("two"), AnyChar, L("rock")>>)>>>>,
       <<"Matchless", <<L("matchless"), Cat(<<L("dc"), Opt(AnyChar), L("30")>>)>>>>,
       <<"Dr_Z", <<Cat(<<L("dr"), Opt(AnyChar), L("z")>>), L("maz")>>>>,
       <<"Dumble", <<L("dumble"), Cat(<<L("overdrive"), AnyChar, L("special")>>)>>>>,
       <<"Trainwreck", <<L("trainwreck")>>>>,
       <<"Rivera", <<L("rivera")>>>>,
       <<"Kemper", <<L("kemper")>>>>,
       <<"Line6", <<Cat(<<L("line"), Opt(AnyChar), L("6")>>), L("helix"), L("pod")>>>>,
       <<"Boss", <<Cat(<<WordBoundary, L("boss"), WordBoundary>>), L("katana")>>>>,
       <<"TC_Electronic", <<Cat(<<L("tc"), AnyChar, L("electronic")>>)>>>>
    >>

CABS ==
    <<
       <<"1x12", <<L("1x12")>>>>,
       <<"2x12", <<L("2x12")>>>>,
       <<"4x12", <<L("4x12")>>>>,
       <<"4x10", <<L("4x10")>>>>,
       <<"8x10", <<L("8x10")>>>>,
       <<"1x15", <<L("1x15")>>>>
    >>

MICS ==
    <<
       <<"SM57", <<L("sm57")>>>>,
       <<"MD421", <<L("md421")>>>>,
       <<"R121", <<L("r121"), L("royer")>>>>,
       <<"U87", <<L("u87")>>>>,
       <<"E609", <<L("e609")>>>>
    >>

\* re.I: the patterns are written in lower case, as full_context is.
model_patterns ==
    <<
       <<Alt(<<Cat(<<L("jcm"), Star(Space), L("800")>>), Cat(<<L("jcm"), Star(Space), L("900")>>), Cat(<<L("jcm"), Star(Space), L("2000")>>)>>), "JCM">>,
       <<Alt(<<Cat(<<L("dual"), Star(Space), L("rect")>>), Cat(<<L("triple"), Star(Space), L("rect")>>), L("recto")>>), "Rectifier">>,
       <<Alt(<<L("5150"), L("6505")>>), "5150">>,
       <<Alt(<<Cat(<<L("ac"), Star(Space), L("30")>>), Cat(<<L("ac"), Star(Space), L("15")>>)>>), "VoxAC">>,
       <<Alt(<<L("twin"), L("deluxe"), L("princeton"), L("bassman")>>), "Fender">>,
       <<Alt(<<L("svt"), L("b15")>>), "Ampeg">>,
       <<Alt(<<L("plexi"), L("1959"), L("1987")>>), "Plexi">>,
       <<Alt(<<L("uberschall"), L("ecstasy")>>), "Bogner">>,
       <<Alt(<<L("vh4"), L("herbert")>>), "Diezel">>,
       <<Alt(<<Cat(<<L("be"), Star(Space), L("100")>>), L("hbe")>>), "FriedmanBE">>,
       <<Alt(<<L("satan"), L("thrasher")>>), "Randall">>
    >>

HiGainPattern == Alt(<<Cat(<<Alt(<<L("high"), L("hi")>>), Opt(AnyChar), L("gain")>>), L("metal"), L("lead"), L("dist"), L("ch3"), L("red")>>)

CrunchPattern == Alt(<<L("crunch"), L("drive"), L("breakup"), L("ch2"), L("orange")>>)

CleanPattern == Alt(<<L("clean"), L("jazz"), L("ch1"), L("green")>>)

JunkWords ==
    <<L("ir"), L("demo"), L("test"), Cat(<<L("v"), Digit>>), L("final"), L("mix"), L("wav"), L("nam"), L("capture"), L("profile"), L("rig")>>

\* _match(text, patterns): the key of the first table entry one of whose
\* patterns is found in the lower-cased text; "" stands for None.
match(text, patterns) ==
    LET t == lower(text)
        hits == {k \in 1..Len(patterns) : SearchAny(patterns[k][2], t)}
    IN  IF hits = {} THEN ""
        ELSE patterns[CHOOSE k \in hits : \A j \in hits : k <= j][1]

BassWords == <<"bass", "bajo", "svt", "ampeg", "darkglass", "8x10", "4x10", "b-15", "b15", "portaflex">>

AcousticWords == <<"acoustic", "piezo", "electroac", "taylor", "martin", "nylon", "body">>

RoomWords == <<"reverb", "room", "hall", "plate", "spring", "echo", "ambient", "space", "convol">>

ContainsAny(c, words) == \E k \in 1..Len(words) : Contains(c, words[k])

\* A categorize that looks for the room words before the bass words.
categorize_room_first(context, filename) ==
    LET c   == lower(context \o " " \o filename)
        ext == lower(PathSuffix(filename))
    IN  IF ext = ".nam" THEN "NAM_Capturas"
        ELSE IF ContainsAny(c, RoomWords) THEN "IR_Utilidades"
        ELSE IF ContainsAny(c, BassWords) THEN "IR_Bajo"
        ELSE IF ContainsAny(c, AcousticWords) THEN "IR_Acustica"
        ELSE "IR_Guitarra"

categorize(context, filename) ==
    LET c   == lower(context \o " " \o filename)
        ext == lower(PathSuffix(filename))
    IN  IF ext = ".nam" THEN "NAM_Capturas"
        ELSE IF ContainsAny(c, BassWords) THEN "IR_Bajo"
        ELSE IF ContainsAny(c, AcousticWords) THEN "IR_Acustica"
        ELSE IF ContainsAny(c, RoomWords) THEN "IR_Utilidades"
        ELSE "IR_Guitarra"

\* categorize of blitz_download.py: the same order, shorter word lists.
BlitzBassWords == <<"bass", "bajo", "svt", "ampeg", "darkglass", "8x10", "4x10">>

BlitzAcousticWords == <<"acoustic", "piezo", "taylor", "nylon">>

BlitzRoomWords == <<"reverb", "room", "hall", "plate", "spring", "ambient", "convol">>

blitz_categorize(context, filename) ==
    LET c   == lower(context \o " " \o filename)
        ext == lower(PathSuffix(filename))
    IN  IF ext = ".nam" THEN "NAM_Capturas"
        ELSE IF ContainsAny(c, BlitzBassWords) THEN "IR_Bajo"
        ELSE IF ContainsAny(c, BlitzAcousticWords) THEN "IR_Acustica"
        ELSE IF ContainsAny(c, BlitzRoomWords) THEN "IR_Utilidades"
        ELSE "IR_Guitarra"

\* The label of the first model pattern found in the context, appended unless
\* it is already a part or the brand is a substring of it; "" when nothing is
\* appended.
ModelLabel(full_context, brand, parts) ==
    LET hits == {k \in 1..Len(model_patterns) : search(model_patterns[k][1], full_context)}
    IN  IF hits = {} THEN ""
        ELSE LET label == model_patterns[CHOOSE k \in hits : \A j \in hits : k <= j][2]
             IN  IF (\A i \in 1..Len(parts) : parts[i] # label)
                    /\ (brand = "" \/ ~Contains(label, brand))
                 THEN label ELSE ""

ToneLabel(full_context) ==
    IF search(HiGainPattern, full_context) THEN "HiGain"
    ELSE IF search(CrunchPattern, full_context) THEN "Crunch"
    ELSE IF search(CleanPattern, full_context) THEN "Clean"
    ELSE ""

AppendIf(parts, token) == IF token = "" THEN parts ELSE Append(parts, token)

MaxStemLen == 40

\* Step 6 of clean_filename: the cleaned original stem, prefixed by the parent
\* folder's name when it is shorter than 3 characters, cut to 40 characters.
FallbackStem(context, stem) ==
    LET cleaned == strip(CollapseUnderscores(SubIgnoreCase(JunkWords, stem)), "_")
        parent  == KeepAlnum(IF Contains(context, "/") THEN PathName(PathParent(context))
                                                     ELSE context)
        chosen  == IF Len(cleaned) < 3 THEN parent \o "_" \o cleaned ELSE cleaned
    IN  SubSeq(chosen, 1, IF Len(chosen) < MaxStemLen THEN Len(chosen) ELSE MaxStemLen)

RECURSIVE CapitalizeAll(_)
CapitalizeAll(parts) ==
    IF Len(parts) = 0 THEN <<>> ELSE <<capitalize(parts[1])>> \o CapitalizeAll(Tail(parts))

\* A clean_filename that appends the mic before the cabinet.
clean_filename_mic_first(context, filename) ==
    LET suffix == lower(PathSuffix(filename))
        stem   == replace(replace(replace(DropBrackets(PathStem(filename)), " ", "_"), "-", "_"), ".", "_")
        full_context == lower(context \o "_" \o stem)
        brand  == match(full_context, BRANDS)
        p1     == AppendIf(<<>>, brand)
        p2     == AppendIf(p1, ModelLabel(full_context, brand, p1))
        p3     == AppendIf(p2, match(full_context, MICS))
        p4     == AppendIf(p3, match(full_context, CABS))
        p5     == AppendIf(p4, ToneLabel(full_context))
        parts  == IF Len(p5) < 2 THEN Append(p5, FallbackStem(context, stem)) ELSE p5
        final_name == strip(CollapseUnderscores(join("_", parts)), "_")
    IN  join("_", CapitalizeAll(split(final_name, "_"))) \o suffix

clean_filename(context, filename) ==
    LET suffix == lower(PathSuffix(filename))
        stem   == replace(replace(replace(DropBrackets(PathStem(filename)), " ", "_"), "-", "_"), ".", "_")
        full_context == lower(context \o "_" \o stem)
        brand  == match(full_context, BRANDS)
        p1     == AppendIf(<<>>, brand)
        p2     == AppendIf(p1, ModelLabel(full_context, brand, p1))
        p3     == AppendIf(p2, match(full_context, CABS))
        p4     == AppendIf(p3, match(full_context, MICS))
        p5     == AppendIf(p4, ToneLabel(full_context))
        parts  == IF Len(p5) < 2 THEN Append(p5, FallbackStem(context, stem)) ELSE p5
        final_name == strip(CollapseUnderscores(join("_", parts)), "_")
    IN  join("_", CapitalizeAll(split(final_name, "_"))) \o suffix

(***************************************************************************)
(* Cache (mega_download.py class Cache).  Cache.data is a JSON object: a   *)
(* function from the field names present to their values.  "urls" is the   *)
(* list of seen keys, "hashes" maps a digest to the first path indexed.    *)
(***************************************************************************)
DefaultData == [urls |-> <<>>, hashes |-> <<>>]

\* What download_and_organize.py's DownloadCache writes: other field names.
LegacyData == [downloaded_urls |-> <<>>, file_hashes |-> <<>>, stats |-> <<>>]

\* The cache file on disk: missing, not parseable (truncated, garbage), or a
\* JSON object.
NoFile == [kind |-> "missing", data |-> <<>>]

CorruptFile == [kind |-> "corrupt", data |-> <<>>]

JsonFile(d) == [kind |-> "json", data |-> d]

\* hashlib.sha256(bytes).hexdigest(): equal bytes give equal digests and
\* (no collisions) different bytes different digests.
sha256(bytes) == <<"sha256", bytes.size, bytes.tag1, bytes.tag2, bytes.id>>

\* Cache.__init__ without its try/except: a file that does not parse raises.
Cache_init_unguarded(file) ==
    [data |-> IF file.kind = "json" THEN file.data ELSE DefaultData,
     raised |-> file.kind = "corrupt"]

\* Cache.__init__: the default tables, replaced by the parsed file when it
\* exists and json.loads succeeds; any exception is swallowed.
Cache_init(file) ==
    [data |-> IF file.kind = "json" THEN file.data ELSE DefaultData,
     raised |-> FALSE]

\* self.data[field] raises KeyError when the loaded object lacks the field.
KeyError(d, field) == field \notin DOMAIN d

Range(list) == {list[i] : i \in 1..Len(list)}

InList(list, x) == \E i \in 1..Len(list) : list[i] = x

seen(d, url) == InList(d.urls, url)

seen_any(d, keys) == \E k \in 1..Len(keys) : InList(d.urls, keys[k])

\* A mark without its membership test.
mark_appending(d, url) == [d EXCEPT !.urls = Append(@, url)]

\* A mark that keeps only the new key.
mark_replacing(d, url) == [d EXCEPT !.urls = <<url>>]

mark(d, url) == IF InList(d.urls, url) THEN d ELSE [d EXCEPT !.urls = Append(@, url)]

\* An index in which no digest is ever found.
is_dup_hit_never(d, bytes) == FALSE

\* is_dup, first half: h = sha256(read_bytes()); h in self.data["hashes"].
is_dup_hit(d, bytes) == sha256(bytes) \in DOMAIN d.hashes

\* is_dup, second half (on a miss): self.data["hashes"][h] = str(filepath).
is_dup_record(d, bytes, path) == [d EXCEPT !.hashes = (sha256(bytes) :> path) @@ @]

\* An is_dup that never records the digest.
is_dup_forgetful(d, path, f) ==
    IF ~f.present \/ ~f.readable \/ KeyError(d, "hashes")
    THEN [raised |-> TRUE, ret |-> FALSE, data |-> d]
    ELSE [raised |-> FALSE, ret |-> is_dup_hit(d, f.bytes), data |-> d]

\* Cache.is_dup as one call: the result, the cache afterwards, and whether
\* it raised (unreadable file, or no "hashes" field).
is_dup(d, path, f) ==
    IF ~f.present \/ ~f.readable \/ KeyError(d, "hashes")
    THEN [raised |-> TRUE, ret |-> FALSE, data |-> d]
    ELSE IF is_dup_hit(d, f.bytes)
    THEN [raised |-> FALSE, ret |-> TRUE, data |-> d]
    ELSE [raised |-> FALSE, ret |-> FALSE, data |-> is_dup_record(d, f.bytes, path)]

reset_for_expansion(d) == [k \in DOMAIN d \cup {"urls"} |-> IF k = "urls" THEN <<>> ELSE d[k]]

\* A save that writes the tables of a new cache.
save_empty(d) == JsonFile(DefaultData)

\* Cache.save: json.dumps(self.data) written to the cache file.
save(d) == JsonFile(d)

(***************************************************************************)
(* Output tree and organize_file (mega_download.py).  The tree maps a path *)
(* <<category, name>> to the bytes stored there.                           *)
(***************************************************************************)
Exists(t, cat, name) == <<cat, name>> \in DOMAIN t

Suffixed(name, i) == PathStem(name) \o "_" \o str(i) \o PathSuffix(name)

\* A placement that never looks for a free name.
dest_name_overwriting(t, cat, name) == name

\* The name organize_file ends with: the computed name when it is free, else
\* stem_i for the first i = 1, 2, ... that is free.
dest_name(t, cat, name) ==
    IF ~Exists(t, cat, name) THEN name
    ELSE LET i == CHOOSE i \in 1..(Cardinality(DOMAIN t) + 1) :
                      /\ ~Exists(t, cat, Suffixed(name, i))
                      /\ \A j \in 1..(i - 1) : Exists(t, cat, Suffixed(name, j))
         IN  Suffixed(name, i)

\* shutil.copy2(src, dest): dest holds the source's bytes afterwards.
copy2(t, dest, bytes) == (dest :> bytes) @@ t

(***************************************************************************)
(* download_and_organize.py: its cache, validator and organizer, and the   *)
(* GitHub tier of its main (download_github_repos).  It keeps the cache in *)
(* the same file, BASE_DIR/.download_cache.json, under other field names.  *)
(***************************************************************************)
\* DownloadCache._load: the default tables, replaced by the parsed file when
\* it exists and parses.
DownloadCache_load(file) == IF file.kind = "json" THEN file.data ELSE LegacyData

is_downloaded(d, url) == InList(d.downloaded_urls, url)

mark_downloaded(d, url) ==
    IF InList(d.downloaded_urls, url) THEN d
    ELSE [d EXCEPT !.downloaded_urls = Append(@, url)]

\* DownloadCache.is_duplicate: the result, the cache afterwards, and whether
\* it raised (unreadable file, or no "file_hashes" field).
is_duplicate(d, path, f) ==
    IF ~f.present \/ ~f.readable \/ KeyError(d, "file_hashes")
    THEN [raised |-> TRUE, ret |-> FALSE, data |-> d]
    ELSE IF sha256(f.bytes) \in DOMAIN d.file_hashes
    THEN [raised |-> FALSE, ret |-> TRUE, data |-> d]
    ELSE [raised |-> FALSE, ret |-> FALSE,
          data |-> [d EXCEPT !.file_hashes = (sha256(f.bytes) :> path) @@ @]]

NAM_EXTENSIONS == {".nam", ".json", ".aidax"}

IR_EXTENSIONS == {".wav", ".aiff", ".flac"}

ALL_EXTENSIONS == NAM_EXTENSIONS \cup IR_EXTENSIONS

validate_wav(f) ==
    IF ~f.present \/ ~f.readable THEN FALSE
    ELSE IF f.bytes.size < HeaderLen THEN FALSE
    ELSE f.bytes.tag1 = "RIFF" /\ f.bytes.tag2 = "WAVE"

\* validate_file: p.stat() is outside any try, so a missing file raises.  A
\* .json file is valid when its text parses (tag1 "JSON" stands for a text
\* that does).
validate_file(path, f) ==
    IF ~f.present THEN [raised |-> TRUE, ret |-> FALSE]
    ELSE IF f.bytes.size < MinSize THEN [raised |-> FALSE, ret |-> FALSE]
    ELSE IF lower(PathSuffix(path)) = ".wav" THEN [raised |-> FALSE, ret |-> validate_wav(f)]
    ELSE IF lower(PathSuffix(path)) = ".json"
    THEN [raised |-> FALSE, ret |-> f.readable /\ f.bytes.tag1 = "JSON"]
    ELSE [raised |-> FALSE, ret |-> TRUE]

BRAND_PATTERNS ==
    <<
       <<"Marshall", <<L("marshall"), L("marsh"), L("jcm"), L("jvm"), L("plexi"), L("1959"), L("1987"), L("2203"), L("2204"), L("dsl"), L("jmp")>>>>,
       <<"Fender", <<L("fender"), L("twin"), Cat(<<L("deluxe"), Star(Space), L("reverb")>>), L("bassman"), L("princeton"), L("champ"), L("vibrolux"), Cat(<<L("super"), Star(Space), L("reverb")>>)>>>>,
       <<"Mesa_Boogie", <<L("mesa"), L("boogie"), L("rectifier"), L("recto"), Cat(<<L("dual"), Star(Space), L("rec")>>), Cat(<<L("triple"), Star(Space), L("rec")>>), Cat(<<L("mark"), Star(Space), Alt(<<L("iv"), L("v"), L("ii"), L("iii")>>)>>), L("lonestar"), L("stiletto")>>>>,
       <<"Vox", <<L("vox"), Cat(<<L("ac"), Star(Space), L("30")>>), Cat(<<L("ac"), Star(Space), L("15")>>), L("ac30"), L("ac15")>>>>,
       <<"Orange", <<L("orange"), L("rockerverb"), L("thunderverb"), Cat(<<L("tiny"), Star(Space), L("terror")>>), Cat(<<L("or"), Digit, Digit, Opt(Digit)>>)>>>>,
       <<"Peavey", <<L("peavey"), L("5150"), L("6505"), L("invective"), L("xxx"), L("jsx")>>>>,
       <<"EVH", <<Cat(<<WordBoundary, L("evh"), WordBoundary>>), Cat(<<L("5150"), Star(Space), Alt(<<L("iii"), L("el34"), L("iconic")>>)>>)>>>>,
       <<"Bogner", <<L("bogner"), L("uberschall"), L("ecstasy"), L("shiva")>>>>,
       <<"Soldano", <<L("soldano"), L("slo"), Cat(<<L("slo"), Star(Space), L("100")>>)>>>>,
       <<"Diezel", <<L("diezel"), L("herbert"), L("vh4"), L("hagen")>>>>,
       <<"Friedman", <<L("friedman"), Cat(<<L("be"), Star(Space), L("100")>>), L("be100"), Cat(<<L("dirty"), Star(Space), L("shirley")>>), Cat(<<L("small"), Star(Space), L("box")>>)>>>>,
       <<"Engl", <<L("engl"), L("powerball"), L("fireball"), L("savage"), L("invader")>>>>,
       <<"Ampeg", <<L("ampeg"), L("svt"), Cat(<<L("b"), Opt(L("-")), L("15")>>), L("v4b"), L("portaflex")>>>>,
       <<"Darkglass", <<L("darkglass"), L("microtubes"), Cat(<<L("alpha"), Star(AnyChar), L("omega")>>), L("b7k")>>>>,
       <<"Eden", <<Cat(<<WordBoundary, L("eden"), WordBoundary>>), L("nemesis"), Cat(<<L("wt"), Digit, Digit, Digit, Opt(Digit)>>)>>>>,
       <<"Sunn", <<Cat(<<WordBoundary, L("sunn"), WordBoundary>>), Cat(<<L("model"), Star(Space), L("t")>>)>>>>,
       <<"Hiwatt", <<L("hiwatt"), Cat(<<L("dr"), Star(Space), L("103")>>), L("dr103")>>>>,
       <<"Matchless", <<L("matchless"), L("chieftain"), Cat(<<L("dc"), Star(Space), L("30")>>)>>>>,
       <<"Dr_Z", <<Cat(<<L("dr"), Opt(L(".")), Star(Space), L("z")>>), Cat(<<L("maz"), Star(Space), L("38")>>)>>>>,
       <<"Hughes_Kettner", <<L("hughes"), L("kettner"), L("triamp"), L("tubemeister")>>>>,
       <<"Laney", <<L("laney"), L("ironheart"), Cat(<<L("gh"), Digit, Digit, Opt(Digit)>>)>>>>,
       <<"Supro", <<L("supro"), L("thunderbolt")>>>>,
       <<"Morgan", <<L("morgan"), Cat(<<L("ac"), Star(Space), L("20")>>)>>>>,
       <<"Revv", <<L("revv"), L("generator")>>>>,
       <<"Victory", <<L("victory"), L("kraken"), L("duchess"), L("countess")>>>>,
       <<"Celestion", <<L("celestion"), L("v30"), Cat(<<L("vintage"), Star(Space), L("30")>>), L("greenback"), L("creamback"), L("g12"), L("alnico")>>>>,
       <<"Eminence", <<L("eminence"), Cat(<<L("swamp"), Star(Space), L("thang")>>), Cat(<<L("texas"), Star(Space), L("heat")>>), Cat(<<L("cannabis"), Star(Space), L("rex")>>)>>>>,
       <<"Jensen", <<L("jensen"), L("c12"), L("p12")>>>>,
       <<"Taylor", <<L("taylor"), L("314"), L("814"), L("914")>>>>,
       <<"Martin", <<L("martin"), Cat(<<L("d"), Opt(L("-")), L("28")>>), Cat(<<L("d"), Opt(L("-")), L("35")>>), Cat(<<L("d"), Opt(L("-")), L("18")>>), Cat(<<L("hd"), Opt(L("-")), L("28")>>)>>>>,
       <<"Gibson_Acoustic", <<Cat(<<L("gibson"), Star(AnyChar), L("acoustic")>>), Cat(<<L("j"), Opt(L("-")), L("45")>>), L("hummingbird"), Cat(<<L("j"), Opt(L("-")), L("200")>>)>>>>
    >>
\* FileOrganizer.detect_brand: the first brand, in the table's order, one of
\* whose patterns is found in the lower-cased text.
detect_brand(filename) ==
    LET hits == {k \in 1..Len(BRAND_PATTERNS) : SearchAny(BRAND_PATTERNS[k][2], lower(filename))}
    IN  IF hits = {} THEN "Otros"
        ELSE BRAND_PATTERNS[CHOOSE k \in hits : \A j \in hits : k <= j][1]

detect_instrument(filepath, filename) ==
    LET context == lower(filepath \o " " \o filename)
    IN  IF ContainsAny(context, <<"bass", "bajo", "b15", "svt", "ampeg", "darkglass", "eden", "sunn">>)
        THEN "BAJO"
        ELSE IF ContainsAny(context, <<"acoustic", "acustic", "electroac", "piezo", "body_sim",
                                       "taylor", "martin", "d-28", "d-35", "j-45", "fingerpick">>)
        THEN "ELECTROACUSTICA"
        ELSE IF ContainsAny(context, <<"reverb_ir", "room_ir", "hall_ir", "plate_ir", "spring_ir",
                                       "mic_emu", "microphone">>)
        THEN "UTILIDADES"
        ELSE "GUITARRA"

detect_type(filepath, filename) ==
    IF lower(PathSuffix(filename)) \in NAM_EXTENSIONS THEN "NAM_Capturas" ELSE "IRs"

\* The keywords are looked up as plain substrings ("full.?rig" included).
detect_subcategory(filepath, filename) ==
    LET context == lower(filepath \o " " \o filename)
        has(words) == ContainsAny(context, words)
    IN  IF has(<<"pedal", "od", "overdrive", "distortion", "fuzz", "boost",
                 "ts808", "ts9", "tubescreamer", "klon", "rat", "muff">>)
        THEN IF has(<<"overdrive", "od", "ts808", "ts9", "tubescreamer", "klon">>)
             THEN "Pedals/Overdrive"
             ELSE IF has(<<"distortion", "rat", "ds-1", "ds1">>) THEN "Pedals/Distortion"
             ELSE IF has(<<"fuzz", "muff", "tone bender">>) THEN "Pedals/Fuzz"
             ELSE IF has(<<"boost", "ep booster", "micro amp">>) THEN "Pedals/Boost"
             ELSE "Pedals/Otros"
        ELSE IF has(<<"full.?rig", "fullrig", "full_rig", "complete">>)
        THEN IF has(<<"high.?gain", "metal", "djent">>) THEN "Full_Rigs/High_Gain"
             ELSE IF has(<<"clean", "jazz">>) THEN "Full_Rigs/Clean"
             ELSE IF has(<<"crunch", "edge">>) THEN "Full_Rigs/Crunch"
             ELSE IF has(<<"vintage", "classic">>) THEN "Full_Rigs/Vintage"
             ELSE "Full_Rigs"
        ELSE "Amps"

RECURSIVE upper(_)
upper(t) == IF Len(t) = 0 THEN "" ELSE UpperChar(CharAt(t, 1)) \o upper(SubSeq(t, 2, Len(t)))

JunkTags == <<"free", "download", "pack", "sample", "demo">>

\* Where the run of non-space characters that starts at i ends.
RECURSIVE NonSpaceRunEnd(_, _)
NonSpaceRunEnd(t, i) ==
    IF i > Len(t) \/ IsSpaceChar(CharAt(t, i)) THEN i ELSE NonSpaceRunEnd(t, i + 1)

\* Where a match of [\[\(]?(free|download|pack|sample|demo|www\.\S+)[\]\)]?
\* (re.I) that starts at i ends; 0 when there is none.
JunkEnd(t, i) ==
    LET lt   == lower(t)
        j    == IF i <= Len(t) /\ CharAt(t, i) \in {"[", "("} THEN i + 1 ELSE i
        hits == {k \in 1..Len(JunkTags) : StartsAt(lt, j, JunkTags[k])}
        word == IF hits # {}
                THEN j + Len(JunkTags[CHOOSE k \in hits : \A n \in hits : k <= n])
                ELSE IF StartsAt(lt, j, "www.") /\ NonSpaceRunEnd(t, j + 4) > j + 4
                THEN NonSpaceRunEnd(t, j + 4)
                ELSE 0
    IN  IF word = 0 THEN 0
        ELSE IF word <= Len(t) /\ CharAt(t, word) \in {"]", ")"} THEN word + 1
        ELSE word

\* re.sub of that pattern by "".
RECURSIVE RemoveJunk(_)
RemoveJunk(t) ==
    IF Len(t) = 0 THEN ""
    ELSE IF JunkEnd(t, 1) > 0 THEN RemoveJunk(SubSeq(t, JunkEnd(t, 1), Len(t)))
    ELSE CharAt(t, 1) \o RemoveJunk(SubSeq(t, 2, Len(t)))

IsSeparator(c) == c \in {" ", "-", "."}

RECURSIVE SkipSeparators(_)
SkipSeparators(t) ==
    IF Len(t) > 0 /\ IsSeparator(CharAt(t, 1)) THEN SkipSeparators(SubSeq(t, 2, Len(t))) ELSE t

\* re.sub(r"[\s\-\.]+", "_", t)
RECURSIVE ReplaceSeparators(_)
ReplaceSeparators(t) ==
    IF Len(t) = 0 THEN ""
    ELSE IF IsSeparator(CharAt(t, 1)) THEN "_" \o ReplaceSeparators(SkipSeparators(t))
    ELSE CharAt(t, 1) \o ReplaceSeparators(SubSeq(t, 2, Len(t)))

\* [p.capitalize() if len(p) > 2 else p.upper() for p in parts if p]
RECURSIVE CapitalizeWords(_)
CapitalizeWords(parts) ==
    IF Len(parts) = 0 THEN <<>>
    ELSE (IF Len(parts[1]) = 0 THEN <<>>
          ELSE IF Len(parts[1]) > 2 THEN <<capitalize(parts[1])>>
          ELSE <<upper(parts[1])>>) \o CapitalizeWords(Tail(parts))

FileOrganizer_clean_filename(name) ==
    LET ext  == lower(PathSuffix(name))
        stem == strip(CollapseUnderscores(ReplaceSeparators(RemoveJunk(PathStem(name)))), "_")
    IN  IF stem = "" THEN name
        ELSE join("_", CapitalizeWords(split(stem, "_"))) \o ext

\* FileOrganizer.organize_file: the directory under BASE_DIR and the name.
FileOrganizer_organize_file(src_name, context_path) ==
    LET instrument  == detect_instrument(context_path, src_name)
        file_type   == detect_type(context_path, src_name)
        brand       == detect_brand(src_name \o " " \o context_path)
        subcategory == detect_subcategory(context_path, src_name)
        dest == IF file_type = "NAM_Capturas"
                THEN IF StartsAt(subcategory, 1, "Pedals") \/ StartsAt(subcategory, 1, "Full_Rigs")
                     THEN instrument \o "/" \o file_type \o "/" \o subcategory
                     ELSE instrument \o "/" \o file_type \o "/" \o subcategory \o "/" \o brand
                ELSE instrument \o "/" \o file_type \o "/" \o brand
    IN  <<dest, FileOrganizer_clean_filename(src_name)>>

(***************************************************************************)
(* Sources.  Two of the repositories of REPOS (they share the repository   *)
(* name) and what their archives hold.  A member is [dir, fn, bytes]; the  *)
(* archive of branch b unpacks under "<name>-<b>/".                        *)
(***************************************************************************)
REPOS == <<"Pilkch/nam-models", "grrrwaaa/nam-models", "maxb2/nam-stuff">>

\* RELEASE_REPOS: the first pairs of the list, written owner/name.
RELEASE_REPOS == <<"GuitarML/Proteus", "GuitarML/TS-M1N3">>

Owner(repo) == split(repo, "/")[1]

Name(repo) == SubSeq(repo, Len(Owner(repo)) + 2, Len(repo))

BytesA == [size |-> 4096, tag1 |-> "RIFF", tag2 |-> "WAVE", id |-> "a"]

BytesB == [size |-> 4096, tag1 |-> "RIFF", tag2 |-> "WAVE", id |-> "b"]

BytesC == [size |-> 4096, tag1 |-> "RIFF", tag2 |-> "WAVE", id |-> "c"]

BytesBad == [size |-> 4096, tag1 |-> "RIFF", tag2 |-> "WAVX", id |-> "d"]

Archive(repo) ==
    IF repo = "Pilkch/nam-models"
    THEN {[dir |-> "amps", fn |-> "marshall.wav", bytes |-> BytesA],
          [dir |-> "amps", fn |-> "marshall_1.wav", bytes |-> BytesB]}
    ELSE IF repo = "grrrwaaa/nam-models"
    THEN {[dir |-> "amps", fn |-> "marshall.wav", bytes |-> BytesC],
          [dir |-> "more", fn |-> "copy.wav", bytes |-> BytesA],
          [dir |-> "more", fn |-> "broken.wav", bytes |-> BytesBad]}
    ELSE {[dir |-> "amps", fn |-> "marshall.wav", bytes |-> BytesC],
          [dir |-> "more", fn |-> "copy.wav", bytes |-> BytesA]}

\* The sources of a run whose tasks do not overlap, and of a pool phase.
RunSources == {REPOS[1], REPOS[2]}

PoolSources == {{REPOS[1], REPOS[2]}, {REPOS[1], REPOS[3]}}

\* What one GET of an archive URL can come to.
Responses == {"ok", "404", "error", "big", "badzip"}

\* What a failing extraction can have written when it fails: nothing (the
\* archive does not open) or the members before the faulty one.
PartialExtractions(repo) == {{}, {m \in Archive(repo) : m.fn = "marshall.wav"}}

OnDisk(bytes) == [present |-> TRUE, readable |-> TRUE, bytes |-> bytes]

(***************************************************************************)
(* download_repo (mega_download.py): keys, paths and the branch loop.      *)
(***************************************************************************)
cache_key(repo) == "v3_gh_" \o Owner(repo) \o "_" \o Name(repo)

HistoricalKeys(repo) ==
    <<cache_key(repo),
      "mega_gh_" \o Owner(repo) \o "_" \o Name(repo),
      "gh_" \o Owner(repo) \o "_" \o Name(repo),
      "blitz_gh_" \o Owner(repo) \o "_" \o Name(repo)>>

tmp_dir == "/tmp/mega_gh"

zip_path(repo) == tmp_dir \o "/" \o Name(repo) \o ".zip"

\* A file under an extraction directory: <tmp>/<name>/<name>-<branch>/<dir>/<fn>.
Entry(name, branch, member) ==
    [name |-> name, branch |-> branch, dir |-> member.dir, fn |-> member.fn]

\* os.path.relpath(root, extract_dir) of the file's directory.
RelRoot(e) == e.name \o "-" \o e.branch \o "/" \o e.dir

\* src = Path(root) / fn
SrcPath(e) == tmp_dir \o "/" \o e.name \o "/" \o RelRoot(e) \o "/" \o e.fn

\* ctx = f"{name}/{os.path.relpath(root, extract_dir)}/{fn}"
Ctx(e) == e.name \o "/" \o RelRoot(e) \o "/" \o e.fn

\* for branch in ["main", "master"]: how the loop ends for the two responses.
\* "walk": the archive of that branch is written, extracted and walked;
\* "badzip": it is written, extraction fails, the archive is unlinked and the
\* key marked; "mark": the key is marked and nothing else (an oversized
\* archive, a 404 on both branches, a request error on master).  A 404 or a
\* request error on main goes on to master.
BranchOutcome(respMain, respMaster) ==
    LET kind(resp) == IF resp = "ok" THEN "walk" ELSE IF resp = "badzip" THEN "badzip" ELSE "mark"
    IN  IF respMain \in {"ok", "badzip", "big"}
        THEN [branch |-> "main", kind |-> kind(respMain)]
        ELSE IF respMaster \in {"ok", "badzip", "big"}
        THEN [branch |-> "master", kind |-> kind(respMaster)]
        ELSE [branch |-> "none", kind |-> "mark"]

\* zf.extractall(extract_dir) of the members given: each is written (over a
\* file already at its path) under <name>-<branch>/.
extractall(dir, name, branch, members) ==
    LET new == {Entry(name, branch, m) : m \in members}
    IN  [e \in DOMAIN dir \cup new |->
            IF e \in new
            THEN (CHOOSE m \in members : Entry(name, branch, m) = e).bytes
            ELSE dir[e]]

\* os.walk(extract_dir): the files under the extraction directory <name>.
walk(dir, name) == {e \in DOMAIN dir : e.name = name}

\* shutil.rmtree(extract_dir, ignore_errors=True)
rmtree(dir, name) == [e \in DOMAIN dir \ walk(dir, name) |-> dir[e]]

\* zip_path.unlink(missing_ok=True)
unlink(files, path) == [q \in DOMAIN files \ {path} |-> files[q]]

\* categorize and clean_filename of every file an extraction can produce,
\* computed once: what organize_file computes for it.
Classified ==
    {[entry |-> Entry(Name(x[1]), x[2], x[3]),
      ext   |-> lower(PathSuffix(x[3].fn)),
      cat   |-> categorize(Ctx(Entry(Name(x[1]), x[2], x[3])), x[3].fn),
      name  |-> clean_filename(Ctx(Entry(Name(x[1]), x[2], x[3])), x[3].fn)] :
        x \in {y \in Range(REPOS) \X {"main", "master"} \X
                       UNION {Archive(r) : r \in Range(REPOS)} :
                    y[3] \in Archive(y[1])}}

(***************************************************************************)
(* State.                                                                  *)
(*   cacheFile  the persisted cache file (BASE_DIR/.download_cache.json)   *)
(*   tree       the output tree under BASE_DIR                             *)
(*   zips       the archives under tmp_dir: path -> whose archive it holds *)
(*              and whether it extracts without fault                      *)
(*   extracted  the files under the extraction directories: entry -> bytes *)
(*   data       Cache.data of the running process                          *)
(*   run, pc, tier, fresh   the process: how many were started, where main *)
(*              is, and its --tier and --fresh arguments                   *)
(*   todo       the sources of the phase not yet handed to a task          *)
(*   cur        the task in progress when tasks run one at a time: its     *)
(*              repository and the files os.walk has still to yield        *)
(*   workers    the pool's workers when tasks overlap (see the pool below) *)
(* History, for stating the properties:                                    *)
(*   loaded     the cache file as Cache.__init__ found it in this run      *)
(*   raised     a Cache method raised in this run                          *)
(*   organized  files organized in this run (total_files)                  *)
(*   fetched    sources this run sent a request for                        *)
(*   done       sources whose task returned after marking its key          *)
(*   calls      per digest, the is_dup calls of this run that returned     *)
(*              False (miss) and True (hit), the copies organize_file      *)
(*              then made (placed), and the path the first of the calls    *)
(*              that returned False recorded (first)                       *)
(*   lastPlace  the run's last organize_file call: category, computed name,*)
(*              chosen name, the paths that existed before it, and how     *)
(*              many earlier calls computed the same category and name     *)
(*   nameCount  per <<category, computed name>>, the run's calls so far    *)
(*   prev       the previous run: its tier, --fresh, the sources it        *)
(*              fetched and finished, whether it reached its summary       *)
(*   classified what categorize and clean_filename return for the files of *)
(*              the archives (both are pure; computed once)                *)
(*   writable   whether the cache file can be written (Cache.save raises    *)
(*              when it cannot)                                            *)
(*   call       the last call of a function taken on its own: its name,    *)
(*              its arguments and what it returned                         *)
(***************************************************************************)
VARIABLES cacheFile, tree, zips, extracted, data, run, pc, tier, fresh, todo, cur,
          workers, loaded, raised, organized, fetched, done, calls, lastPlace,
          nameCount, prev, classified, writable, call

vars == <<cacheFile, tree, zips, extracted, data, run, pc, tier, fresh, todo, cur,
          workers, loaded, raised, organized, fetched, done, calls, lastPlace,
          nameCount, prev, classified, writable, call>>

ClassOf(e) == CHOOSE c \in classified : c.entry = e

NoCall == [op |-> ""]

NoCalls == [miss |-> 0, hit |-> 0, placed |-> 0, first |-> ""]

CallsOn(h) == IF h \in DOMAIN calls THEN calls[h] ELSE NoCalls

Counted(h, field) ==
    (h :> [CallsOn(h) EXCEPT ![field] = @ + 1]) @@ calls

\* An is_dup call that returned False after recording path for the digest.
Indexed(h, path) ==
    (h :> [CallsOn(h) EXCEPT !.miss = @ + 1,
                             !.first = IF CallsOn(h).miss = 0 THEN path ELSE @]) @@ calls

MaxRuns == 2

Tiers == {"github", "all", "cleanup", "validate"}

NoTask == [repo |-> "", files |-> {}]

NoPlace == [cat |-> "", name |-> "", dest |-> "", before |-> {}, k |-> 0]

NoPrev == [tier |-> "", fresh |-> FALSE, fetched |-> {}, done |-> {}, ended |-> FALSE]

\* A cache file written earlier by download_and_organize.py.
LegacyFile ==
    JsonFile([LegacyData EXCEPT !.downloaded_urls =
                 <<"https://github.com/pelennor2170/NAM_models/archive/refs/heads/main.zip">>])

InitialCacheFiles == {NoFile, CorruptFile, LegacyFile}

Workers == {1, 2}

NoEntry == [name |-> "", branch |-> "", dir |-> "", fn |-> ""]

IdleWorker ==
    [at |-> "idle", repo |-> "", branch |-> "", from |-> "", files |-> {},
     e |-> NoEntry, read |-> <<>>, dest |-> <<>>]

Startup ==
    /\ cacheFile \in InitialCacheFiles
    /\ tree = <<>>
    /\ zips = <<>>
    /\ extracted = <<>>
    /\ data = DefaultData
    /\ run = 0
    /\ pc = "idle"
    /\ tier = "all"
    /\ fresh = FALSE
    /\ todo = {}
    /\ cur = NoTask
    /\ workers = [w \in Workers |-> IdleWorker]
    /\ loaded = NoFile
    /\ raised = FALSE
    /\ organized = 0
    /\ fetched = {}
    /\ done = {}
    /\ calls = <<>>
    /\ lastPlace = NoPlace
    /\ nameCount = <<>>
    /\ prev = NoPrev
    /\ classified = Classified
    /\ call = NoCall

Init == Startup /\ writable = TRUE

\* cleanup_local: walks BASE_DIR and unlinks every file with a junk extension
\* or junk name (the cache file .download_cache.json is both), every file that
\* is not valid, and every file whose digest an earlier file of the walk had.
\* kept is the set of files the walk met first for their digest.
cleanup_local_trees(t) ==
    LET valid == {p \in DOMAIN t :
                     /\ lower(PathSuffix(p[2])) \in VALID_EXT
                     /\ is_valid(p[2], OnDisk(t[p]))}
    IN  {[p \in kept |-> t[p]] :
            kept \in {K \in SUBSET valid :
                        /\ \A p \in valid : \E q \in K : sha256(t[q]) = sha256(t[p])
                        /\ \A p, q \in K : sha256(t[p]) = sha256(t[q]) => p = q}}

\* main: parse the arguments, setup(), cache = Cache().
StartRun(t, f) ==
    /\ pc \in {"idle", "crashed"}
    /\ run < MaxRuns
    /\ run' = run + 1
    /\ tier' = t
    /\ fresh' = f
    /\ loaded' = cacheFile
    /\ data' = Cache_init(cacheFile).data
    /\ pc' = IF Cache_init(cacheFile).raised THEN "crashed" ELSE "init"
    /\ raised' = FALSE
    /\ organized' = 0
    /\ fetched' = {}
    /\ done' = {}
    /\ calls' = <<>>
    /\ lastPlace' = NoPlace
    /\ nameCount' = <<>>
    /\ todo' = {}
    /\ cur' = NoTask
    /\ UNCHANGED <<cacheFile, tree, zips, extracted, workers, prev, classified, writable, call>>

\* main: if args.fresh: cache.reset_for_expansion(); cache.save().  A save
\* that raises is caught nowhere: the run ends there.
ArgsFresh ==
    /\ pc = "init"
    /\ IF fresh
       THEN /\ data' = reset_for_expansion(data)
            /\ IF writable
               THEN /\ cacheFile' = save(reset_for_expansion(data))
                    /\ pc' = "cleanup"
                    /\ raised' = raised
               ELSE /\ cacheFile' = cacheFile
                    /\ pc' = "crashed"
                    /\ raised' = TRUE
       ELSE /\ pc' = "cleanup"
            /\ UNCHANGED <<data, cacheFile, raised>>
    /\ UNCHANGED <<tree, zips, extracted, run, tier, fresh, todo, cur, workers, loaded,
                   organized, fetched, done, calls, lastPlace, nameCount,
                   prev, classified, writable, call>>

\* main: the CLEANUP block (tiers cleanup and all) and the VALIDATE block
\* (tier validate, which returns after it).
PreCleanup ==
    /\ pc = "cleanup"
    /\ IF tier \in {"cleanup", "all", "validate"}
       THEN /\ tree' \in cleanup_local_trees(tree)
            /\ cacheFile' = NoFile
       ELSE UNCHANGED <<tree, cacheFile>>
    /\ IF tier = "validate"
       THEN /\ pc' = "idle"
            /\ prev' = [tier |-> tier, fresh |-> fresh, fetched |-> fetched,
                        done |-> done, ended |-> TRUE]
            /\ todo' = {}
       ELSE /\ pc' = "phase"
            /\ prev' = prev
            /\ todo' = IF tier \in {"github", "all"} THEN RunSources ELSE {}
    /\ UNCHANGED <<zips, extracted, data, run, tier, fresh, cur, workers, loaded,
                   raised, organized, fetched, done, calls, lastPlace, nameCount,
                   classified, writable, call>>

\* download_repo up to the walk: the seen_any check (a KeyError leaves the
\* task through future.result(), which main logs), the branch loop, the
\* download and the extraction.  part is what a failing extraction had
\* written when it failed.
TaskStart(repo, respMain, respMaster, part) ==
    /\ pc = "phase"
    /\ repo \in todo
    /\ part \in PartialExtractions(repo)
    /\ todo' = todo \ {repo}
    /\ LET out == BranchOutcome(respMain, respMaster)
       IN  IF KeyError(data, "urls")
           THEN /\ raised' = TRUE
                /\ UNCHANGED <<data, pc, cur, fetched, done, zips, extracted>>
           ELSE IF seen_any(data, HistoricalKeys(repo))
           THEN UNCHANGED <<data, pc, cur, fetched, done, raised, zips, extracted>>
           ELSE /\ fetched' = fetched \cup {repo}
                /\ raised' = raised
                /\ IF out.kind = "walk"
                   THEN /\ zips' = (zip_path(repo) :> [repo |-> repo, branch |-> out.branch,
                                                            good |-> TRUE]) @@ zips
                        /\ extracted' = extractall(extracted, Name(repo), out.branch, Archive(repo))
                        /\ cur' = [repo |-> repo,
                                   files |-> walk(extractall(extracted, Name(repo), out.branch,
                                                             Archive(repo)), Name(repo))]
                        /\ pc' = "task"
                        /\ UNCHANGED <<data, done>>
                   ELSE /\ data' = mark(data, cache_key(repo))
                        /\ done' = done \cup {repo}
                        /\ zips' = IF out.kind = "badzip" THEN unlink(zips, zip_path(repo))
                                   ELSE zips
                        /\ extracted' = IF out.kind = "badzip"
                                        THEN extractall(extracted, Name(repo), out.branch, part)
                                        ELSE extracted
                        /\ UNCHANGED <<pc, cur>>
    /\ UNCHANGED <<cacheFile, tree, run, tier, fresh, workers, loaded, organized,
                   calls, lastPlace, nameCount, prev, classified, writable, call>>

\* One turn of the walk's inner loop: the extension filter, is_valid,
\* cache.is_dup, organize_file; an exception skips the file.
IngestFile(e) ==
    /\ pc = "task"
    /\ e \in cur.files
    /\ cur' = [cur EXCEPT !.files = @ \ {e}]
    /\ LET src  == SrcPath(e)
           file == OnDisk(extracted[e])
           dup  == is_dup(data, src, file)
           cat  == ClassOf(e).cat
           name == ClassOf(e).name
           dest == <<cat, dest_name(tree, cat, name)>>
           key  == <<cat, name>>
           k    == IF key \in DOMAIN nameCount THEN nameCount[key] ELSE 0
       IN  IF ClassOf(e).ext \notin VALID_EXT \/ ~is_valid(src, file)
           THEN UNCHANGED <<data, tree, raised, organized, calls, lastPlace, nameCount>>
           ELSE IF dup.raised
           THEN /\ raised' = TRUE
                /\ UNCHANGED <<data, tree, organized, calls, lastPlace, nameCount>>
           ELSE IF dup.ret
           THEN /\ data' = dup.data
                /\ calls' = Counted(sha256(file.bytes), "hit")
                /\ UNCHANGED <<tree, raised, organized, lastPlace, nameCount>>
           ELSE /\ data' = dup.data
                /\ tree' = copy2(tree, dest, file.bytes)
                /\ organized' = organized + 1
                /\ calls' = (sha256(file.bytes) :>
                                 [Indexed(sha256(file.bytes), src)[sha256(file.bytes)] EXCEPT
                                     !.placed = @ + 1]) @@ calls
                /\ lastPlace' = [cat |-> cat, name |-> name, dest |-> dest[2],
                                 before |-> DOMAIN tree, k |-> k]
                /\ nameCount' = (key :> (k + 1)) @@ nameCount
                /\ raised' = raised
    /\ UNCHANGED <<cacheFile, zips, extracted, run, pc, tier, fresh, todo, workers,
                   loaded, fetched, done, prev, classified, writable, call>>

\* download_repo after the walk: cache.mark(cache_key); cache.save(); the
\* extraction directory and the archive are removed.  A save that raises is
\* no RequestException: it leaves download_repo before the removal, and main
\* logs it at future.result() and goes on.
TaskFinish ==
    /\ pc = "task"
    /\ cur.files = {}
    /\ data' = mark(data, cache_key(cur.repo))
    /\ IF writable
       THEN /\ cacheFile' = save(mark(data, cache_key(cur.repo)))
            /\ extracted' = rmtree(extracted, Name(cur.repo))
            /\ zips' = unlink(zips, zip_path(cur.repo))
            /\ done' = done \cup {cur.repo}
            /\ raised' = raised
       ELSE /\ raised' = TRUE
            /\ UNCHANGED <<cacheFile, extracted, zips, done>>
    /\ cur' = NoTask
    /\ pc' = "phase"
    /\ UNCHANGED <<tree, run, tier, fresh, todo, workers, loaded, organized,
                   fetched, calls, lastPlace, nameCount, prev, classified, writable, call>>

\* main, at the end of the phase: cache.save() (tiers github and all).  A
\* save that raises is caught nowhere: the run ends there.  With --tier
\* releases the block is skipped and the RELEASES block comes next.
PhaseSave ==
    /\ pc = "phase"
    /\ todo = {}
    /\ IF tier \in {"github", "all"}
       THEN /\ IF writable
               THEN /\ cacheFile' = save(data)
                    /\ pc' = "final"
                    /\ raised' = raised
               ELSE /\ cacheFile' = cacheFile
                    /\ pc' = "crashed"
                    /\ raised' = TRUE
            /\ todo' = todo
       ELSE /\ pc' = IF tier = "releases" THEN "releases" ELSE "final"
            /\ todo' = IF tier = "releases" THEN Range(RELEASE_REPOS) ELSE todo
            /\ UNCHANGED <<cacheFile, raised>>
    /\ UNCHANGED <<tree, zips, extracted, data, run, tier, fresh, cur, workers,
                   loaded, organized, fetched, done, calls, lastPlace,
                   nameCount, prev, classified, writable, call>>

\* main: FINAL CLEANUP (tier all) and the summary.
Summary ==
    /\ pc = "final"
    /\ pc' = "idle"
    /\ IF tier = "all"
       THEN /\ tree' \in cleanup_local_trees(tree)
            /\ cacheFile' = NoFile
       ELSE UNCHANGED <<tree, cacheFile>>
    /\ prev' = [tier |-> tier, fresh |-> fresh, fetched |-> fetched, done |-> done,
                ended |-> TRUE]
    /\ UNCHANGED <<zips, extracted, data, run, tier, fresh, todo, cur, workers, loaded,
                   raised, organized, fetched, done, calls, lastPlace, nameCount,
                   classified, writable, call>>

Next ==
    \/ \E t \in Tiers, f \in BOOLEAN : StartRun(t, f)
    \/ ArgsFresh
    \/ PreCleanup
    \/ \E repo \in RunSources, respMain \in Responses, respMaster \in Responses :
          \E part \in PartialExtractions(repo) : TaskStart(repo, respMain, respMaster, part)
    \/ \E e \in cur.files : IngestFile(e)
    \/ TaskFinish
    \/ PhaseSave
    \/ Summary

Spec == Init /\ [][Next]_vars

\* The same runs when the cache file cannot be written, and so was never
\* written.
ReadOnlyInit == Startup /\ cacheFile = NoFile /\ writable = FALSE

SpecReadOnly == ReadOnlyInit /\ [][Next]_vars

\* The same runs with an external cleanup pass between two of them: a file
\* of the output tree is deleted from outside while no process runs (once in
\* a behaviour).  call keeps what was deleted.
ExternalCleanup(p) ==
    /\ pc = "idle"
    /\ run >= 1
    /\ call = NoCall
    /\ p \in DOMAIN tree
    /\ tree' = [q \in DOMAIN tree \ {p} |-> tree[q]]
    /\ call' = [op |-> "unlink", path |-> p, digest |-> sha256(tree[p])]
    /\ UNCHANGED <<cacheFile, zips, extracted, data, run, pc, tier, fresh, todo, cur,
                   workers, loaded, raised, organized, fetched, done, calls, lastPlace,
                   nameCount, prev, classified, writable>>

StaleInit == Startup /\ cacheFile = NoFile /\ writable = TRUE

StaleNext ==
    \/ Next
    \/ \E p \in DOMAIN tree : ExternalCleanup(p)

SpecStale == StaleInit /\ [][StaleNext]_vars

\* A run when the output directory can refuse a file (disk full, no
\* permission): one turn of the walk in which organize_file raises.  The
\* file passed is_valid and is_dup returned False, so its digest is in the
\* index; the except of the walk swallows the exception and the walk goes on.
IngestFileRaises(e) ==
    /\ pc = "task"
    /\ e \in cur.files
    /\ LET src  == SrcPath(e)
           file == OnDisk(extracted[e])
           dup  == is_dup(data, src, file)
       IN  /\ ClassOf(e).ext \in VALID_EXT
           /\ is_valid(src, file)
           /\ ~dup.raised
           /\ ~dup.ret
           /\ data' = dup.data
           /\ calls' = Indexed(sha256(file.bytes), src)
    /\ cur' = [cur EXCEPT !.files = @ \ {e}]
    /\ raised' = TRUE
    /\ UNCHANGED <<cacheFile, tree, zips, extracted, run, pc, tier, fresh, todo, workers,
                   loaded, organized, fetched, done, lastPlace, nameCount, prev,
                   classified, writable, call>>

\* One run of main.
OutputNext ==
    \/ \E t \in Tiers, f \in BOOLEAN : run = 0 /\ StartRun(t, f)
    \/ ArgsFresh
    \/ PreCleanup
    \/ \E repo \in RunSources, respMain \in Responses, respMaster \in Responses :
          \E part \in PartialExtractions(repo) : TaskStart(repo, respMain, respMaster, part)
    \/ \E e \in cur.files : IngestFile(e)
    \/ \E e \in cur.files : IngestFileRaises(e)
    \/ TaskFinish
    \/ PhaseSave
    \/ Summary

SpecOutput == StaleInit /\ [][OutputNext]_vars

(***************************************************************************)
(* The pool: the GITHUB REPOS phase of main with its tasks overlapping.     *)
(* main submits download_repo for every source to a ThreadPoolExecutor; a  *)
(* worker runs one task at a time, and between two statements of a task    *)
(* another worker may run.  A worker's record: at (where its task is),     *)
(* repo, branch (of the request), from (whose archive it extracted), files *)
(* (what os.walk listed and has still to yield), e (the file in hand),     *)
(* read (the bytes is_dup read), dest (the destination organize_file       *)
(* chose).  The phase starts from an empty cache and an empty output tree. *)
(***************************************************************************)
PoolInit ==
    /\ cacheFile = NoFile
    /\ tree = <<>>
    /\ zips = <<>>
    /\ extracted = <<>>
    /\ data = DefaultData
    /\ run = 1
    /\ pc = "pool"
    /\ tier = "github"
    /\ fresh = FALSE
    /\ todo \in PoolSources
    /\ cur = NoTask
    /\ workers = [w \in Workers |-> IdleWorker]
    /\ loaded = NoFile
    /\ raised = FALSE
    /\ organized = 0
    /\ fetched = {}
    /\ done = {}
    /\ calls = <<>>
    /\ lastPlace = NoPlace
    /\ nameCount = <<>>
    /\ prev = NoPrev
    /\ classified = Classified
    /\ writable = TRUE
    /\ call = NoCall

\* What no step of a task changes.
poolFrame == <<run, pc, tier, fresh, cur, loaded, lastPlace, nameCount, prev, classified, writable, call>>

\* The file at an entry, as a task finds it.
FileAt(dir, e) ==
    IF e \in DOMAIN dir THEN OnDisk(dir[e])
    ELSE [present |-> FALSE, readable |-> FALSE, bytes |-> <<>>]

\* executor.submit(download_repo, ...) reaching a free worker; download_repo
\* up to the branch loop: the seen_any check.
Submit(w, repo) ==
    /\ pc = "pool"
    /\ workers[w].at = "idle"
    /\ repo \in todo
    /\ todo' = todo \ {repo}
    /\ IF KeyError(data, "urls")
       THEN /\ raised' = TRUE
            /\ UNCHANGED <<workers, fetched>>
       ELSE IF seen_any(data, HistoricalKeys(repo))
       THEN UNCHANGED <<workers, fetched, raised>>
       ELSE /\ workers' = [workers EXCEPT ![w] =
                              [IdleWorker EXCEPT !.at = "get", !.repo = repo, !.branch = "main"]]
            /\ fetched' = fetched \cup {repo}
            /\ raised' = raised
    /\ UNCHANGED <<cacheFile, tree, zips, extracted, data, organized, done, calls>>
    /\ UNCHANGED poolFrame

\* download_repo, one turn of the branch loop up to the archive written:
\* session.get, the 404 and Content-Length tests, the chunks written to
\* zip_path.
Get(w, resp) ==
    /\ workers[w].at = "get"
    /\ LET me == workers[w]
       IN  IF resp \in {"ok", "badzip"}
           THEN /\ zips' = (zip_path(me.repo) :> [repo |-> me.repo, branch |-> me.branch,
                                                 good |-> resp = "ok"]) @@ zips
                /\ workers' = [workers EXCEPT ![w].at = "extract"]
                /\ UNCHANGED <<data, done>>
           ELSE IF resp \in {"404", "error"} /\ me.branch = "main"
           THEN /\ workers' = [workers EXCEPT ![w].branch = "master"]
                /\ UNCHANGED <<zips, data, done>>
           ELSE /\ data' = mark(data, cache_key(me.repo))
                /\ done' = done \cup {me.repo}
                /\ workers' = [workers EXCEPT ![w] = IdleWorker]
                /\ UNCHANGED zips
    /\ UNCHANGED <<cacheFile, tree, extracted, todo, raised, organized, fetched, calls>>
    /\ UNCHANGED poolFrame

\* download_repo: zipfile.ZipFile(zip_path).extractall(extract_dir) and, when
\* it raises, the unlink, mark and return; else the listing of the walk.
\* The archive read is the one at zip_path now.
Extract(w, part) ==
    /\ workers[w].at = "extract"
    /\ LET me == workers[w]
           zp == zip_path(me.repo)
       IN  IF zp \notin DOMAIN zips
           THEN /\ data' = mark(data, cache_key(me.repo))
                /\ done' = done \cup {me.repo}
                /\ workers' = [workers EXCEPT ![w] = IdleWorker]
                /\ UNCHANGED <<zips, extracted>>
           ELSE IF zips[zp].good
           THEN /\ extracted' = extractall(extracted, Name(me.repo), zips[zp].branch,
                                           Archive(zips[zp].repo))
                /\ workers' = [workers EXCEPT
                                  ![w].at = "walk",
                                  ![w].from = zips[zp].repo,
                                  ![w].files = walk(extractall(extracted, Name(me.repo),
                                                               zips[zp].branch,
                                                               Archive(zips[zp].repo)),
                                                    Name(me.repo))]
                /\ UNCHANGED <<zips, data, done>>
           ELSE /\ part \in PartialExtractions(zips[zp].repo)
                /\ extracted' = extractall(extracted, Name(me.repo), zips[zp].branch, part)
                /\ zips' = unlink(zips, zp)
                /\ data' = mark(data, cache_key(me.repo))
                /\ done' = done \cup {me.repo}
                /\ workers' = [workers EXCEPT ![w] = IdleWorker]
    /\ UNCHANGED <<cacheFile, tree, todo, raised, organized, fetched, calls>>
    /\ UNCHANGED poolFrame

\* The walk's inner loop up to is_valid: the extension filter, src, is_valid.
Valid(w, e) ==
    /\ workers[w].at = "walk"
    /\ e \in workers[w].files
    /\ IF ClassOf(e).ext \notin VALID_EXT \/ ~is_valid(SrcPath(e), FileAt(extracted, e))
       THEN workers' = [workers EXCEPT ![w].files = @ \ {e}]
       ELSE workers' = [workers EXCEPT ![w].files = @ \ {e}, ![w].e = e, ![w].at = "hash"]
    /\ UNCHANGED <<cacheFile, tree, zips, extracted, data, todo, raised, organized,
                   fetched, done, calls>>
    /\ UNCHANGED poolFrame

\* Cache.is_dup, up to its return True: the file is read and hashed, the
\* digest looked up.  A file that is gone raises, which the walk swallows.
Hash(w) ==
    /\ workers[w].at = "hash"
    /\ LET me == workers[w]
           f  == FileAt(extracted, me.e)
       IN  IF ~f.present \/ KeyError(data, "hashes")
           THEN /\ raised' = TRUE
                /\ workers' = [workers EXCEPT ![w].at = "walk"]
                /\ calls' = calls
           ELSE IF is_dup_hit(data, f.bytes)
           THEN /\ calls' = Counted(sha256(f.bytes), "hit")
                /\ workers' = [workers EXCEPT ![w].at = "walk"]
                /\ raised' = raised
           ELSE /\ workers' = [workers EXCEPT ![w].at = "record", ![w].read = f.bytes]
                /\ UNCHANGED <<calls, raised>>
    /\ UNCHANGED <<cacheFile, tree, zips, extracted, data, todo, organized, fetched, done>>
    /\ UNCHANGED poolFrame

\* Cache.is_dup, after the lookup missed: the digest is recorded, False
\* returned.
Record(w) ==
    /\ workers[w].at = "record"
    /\ data' = is_dup_record(data, workers[w].read, SrcPath(workers[w].e))
    /\ calls' = Indexed(sha256(workers[w].read), SrcPath(workers[w].e))
    /\ workers' = [workers EXCEPT ![w].at = "organize"]
    /\ UNCHANGED <<cacheFile, tree, zips, extracted, todo, raised, organized, fetched, done>>
    /\ UNCHANGED poolFrame

\* organize_file up to the copy: categorize, clean_filename and the
\* dest.exists() tests that choose the destination.
Organize(w) ==
    /\ workers[w].at = "organize"
    /\ LET c == ClassOf(workers[w].e)
       IN  workers' = [workers EXCEPT ![w].at = "copy",
                                      ![w].dest = <<c.cat, dest_name(tree, c.cat, c.name)>>]
    /\ UNCHANGED <<cacheFile, tree, zips, extracted, data, todo, raised, organized,
                   fetched, done, calls>>
    /\ UNCHANGED poolFrame

\* organize_file: shutil.copy2(src_path, dest), of the file as it is now.  A
\* source that is gone raises, which the walk swallows.
Copy(w) ==
    /\ workers[w].at = "copy"
    /\ LET me == workers[w]
           f  == FileAt(extracted, me.e)
       IN  IF ~f.present
           THEN UNCHANGED <<tree, organized, calls>>
           ELSE /\ tree' = copy2(tree, me.dest, f.bytes)
                /\ organized' = organized + 1
                /\ calls' = Counted(sha256(me.read), "placed")
    /\ workers' = [workers EXCEPT ![w].at = "walk"]
    /\ UNCHANGED <<cacheFile, zips, extracted, data, todo, raised, fetched, done>>
    /\ UNCHANGED poolFrame

\* download_repo after the walk: cache.mark(cache_key); cache.save();
\* shutil.rmtree(extract_dir); zip_path.unlink().
Finish(w) ==
    /\ workers[w].at = "walk"
    /\ workers[w].files = {}
    /\ data' = mark(data, cache_key(workers[w].repo))
    /\ cacheFile' = save(mark(data, cache_key(workers[w].repo)))
    /\ extracted' = rmtree(extracted, Name(workers[w].repo))
    /\ zips' = unlink(zips, zip_path(workers[w].repo))
    /\ done' = done \cup {workers[w].repo}
    /\ workers' = [workers EXCEPT ![w] = IdleWorker]
    /\ UNCHANGED <<tree, todo, raised, organized, fetched, calls>>
    /\ UNCHANGED poolFrame

\* main, once every future is done: the phase's cache.save().
PoolPhaseSave ==
    /\ pc = "pool"
    /\ todo = {}
    /\ \A w \in Workers : workers[w].at = "idle"
    /\ pc' = "final"
    /\ cacheFile' = save(data)
    /\ UNCHANGED <<tree, zips, extracted, data, run, tier, fresh, todo, cur, workers,
                   loaded, raised, organized, fetched, done, calls, lastPlace,
                   nameCount, prev, classified, writable, call>>

PoolNext ==
    \/ \E w \in Workers, repo \in Range(REPOS) : Submit(w, repo)
    \/ \E w \in Workers, resp \in Responses : Get(w, resp)
    \/ \E w \in Workers, part \in UNION {PartialExtractions(r) : r \in Range(REPOS)} :
          Extract(w, part)
    \/ \E w \in Workers : \E e \in workers[w].files : Valid(w, e)
    \/ \E w \in Workers : Hash(w)
    \/ \E w \in Workers : Record(w)
    \/ \E w \in Workers : Organize(w)
    \/ \E w \in Workers : Copy(w)
    \/ \E w \in Workers : Finish(w)
    \/ PoolPhaseSave

SpecPool == PoolInit /\ [][PoolNext]_vars

(***************************************************************************)
(* download_and_organize.py, --tier github: main up to the end of          *)
(* download_github_repos, over the same variables.  The repositories are   *)
(* handled one after the other, in the order of GITHUB_REPOS; cur carries  *)
(* the task's zip_url as well.  The release assets that the tier fetches   *)
(* afterwards are under other URLs and are left out, as is STATS_FILE,     *)
(* which nothing reads back.                                               *)
(***************************************************************************)
GITHUB_REPOS ==
    <<"https://github.com/pelennor2170/NAM_models", "https://github.com/GuitarML/Proteus">>

\* zip_url = f"{repo_url}/archive/refs/heads/main.zip", and the master one.
archive_url(repo_url, branch) == repo_url \o "/archive/refs/heads/" \o branch \o ".zip"

\* repo_name = repo_url.split("/")[-1]
repo_name(repo_url) == PathName(repo_url)

github_zips == "/tmp/github_zips"

DaoZipPath(repo_url) == github_zips \o "/" \o repo_name(repo_url) \o ".zip"

\* src = Path(root) / fname
DaoSrcPath(e) == github_zips \o "/" \o e.name \o "/" \o RelRoot(e) \o "/" \o e.fn

BytesNam == [size |-> 4096, tag1 |-> "NAM", tag2 |-> "", id |-> "n"]

DaoArchive(repo_url) ==
    IF repo_url = GITHUB_REPOS[1]
    THEN {[dir |-> "amps", fn |-> "marshall jcm800.nam", bytes |-> BytesNam],
          [dir |-> "cabs", fn |-> "v30.wav", bytes |-> BytesA]}
    ELSE {[dir |-> "models", fn |-> "copy.wav", bytes |-> BytesA],
          [dir |-> "models", fn |-> "readme.txt", bytes |-> BytesB]}

DaoResponses == {"ok", "404", "error", "badzip"}

DaoPartialExtractions(repo_url) == {{}, {m \in DaoArchive(repo_url) : m.dir = "models"}}

\* organizer.organize_file(src, context) of every file an extraction can
\* produce, computed once: the directory (cat) and the cleaned name.
DaoClassified ==
    {[entry |-> Entry(repo_name(x[1]), x[2], x[3]),
      ext   |-> lower(PathSuffix(x[3].fn)),
      cat   |-> FileOrganizer_organize_file(x[3].fn, Ctx(Entry(repo_name(x[1]), x[2], x[3])))[1],
      name  |-> FileOrganizer_organize_file(x[3].fn, Ctx(Entry(repo_name(x[1]), x[2], x[3])))[2]] :
        x \in {y \in Range(GITHUB_REPOS) \X {"main", "master"} \X
                       UNION {DaoArchive(r) : r \in Range(GITHUB_REPOS)} :
                    y[3] \in DaoArchive(y[1])}}

DaoNoTask == [repo |-> "", zip_url |-> "", files |-> {}]

\* The cache file before the first run: none, an unreadable one, one written
\* by this script, one written by mega_download.py.
DaoInitialCacheFiles == {NoFile, CorruptFile, LegacyFile, JsonFile(DefaultData)}

DaoInit ==
    /\ cacheFile \in DaoInitialCacheFiles
    /\ tree = <<>>
    /\ zips = <<>>
    /\ extracted = <<>>
    /\ data = LegacyData
    /\ run = 0
    /\ pc = "idle"
    /\ tier = "github"
    /\ fresh = FALSE
    /\ todo = {}
    /\ cur = DaoNoTask
    /\ workers = [w \in Workers |-> IdleWorker]
    /\ loaded = NoFile
    /\ raised = FALSE
    /\ organized = 0
    /\ fetched = {}
    /\ done = {}
    /\ calls = <<>>
    /\ lastPlace = NoPlace
    /\ nameCount = <<>>
    /\ prev = NoPrev
    /\ classified = DaoClassified
    /\ writable = TRUE
    /\ call = NoCall

\* main: cache = DownloadCache(), then the tier's download_github_repos.
DaoStartRun ==
    /\ pc \in {"idle", "crashed"}
    /\ run < MaxRuns
    /\ run' = run + 1
    /\ loaded' = cacheFile
    /\ data' = DownloadCache_load(cacheFile)
    /\ pc' = "dao"
    /\ todo' = Range(GITHUB_REPOS)
    /\ raised' = FALSE
    /\ organized' = 0
    /\ fetched' = {}
    /\ done' = {}
    /\ calls' = <<>>
    /\ lastPlace' = NoPlace
    /\ nameCount' = <<>>
    /\ cur' = DaoNoTask
    /\ UNCHANGED <<cacheFile, tree, zips, extracted, tier, fresh, workers, prev, classified, writable, call>>

\* for repo in GITHUB_REPOS: the next one of the list.
NextRepo(left) ==
    GITHUB_REPOS[CHOOSE i \in 1..Len(GITHUB_REPOS) :
                    /\ GITHUB_REPOS[i] \in left
                    /\ \A j \in 1..(i - 1) : GITHUB_REPOS[j] \notin left]

\* One turn of the loop up to the walk: the is_downloaded check on the main
\* URL (outside the try: a KeyError ends the run), the request, the retry
\* on master after a 404, raise_for_status, the archive written and
\* extracted.  An exception from the request on is logged and the loop goes
\* on: nothing is marked and what was written stays.
DaoRepoStart(respMain, respMaster, part) ==
    /\ pc = "dao"
    /\ todo # {}
    /\ part \in DaoPartialExtractions(NextRepo(todo))
    /\ LET repo_url == NextRepo(todo)
           branch   == IF respMain = "404" THEN "master" ELSE "main"
           resp     == IF respMain = "404" THEN respMaster ELSE respMain
           zip_url  == archive_url(repo_url, branch)
           name     == repo_name(repo_url)
       IN  IF KeyError(data, "downloaded_urls")
           THEN /\ raised' = TRUE
                /\ pc' = "crashed"
                /\ todo' = {}
                /\ UNCHANGED <<cur, fetched, zips, extracted>>
           ELSE IF is_downloaded(data, archive_url(repo_url, "main"))
           THEN /\ todo' = todo \ {repo_url}
                /\ UNCHANGED <<pc, cur, fetched, raised, zips, extracted>>
           ELSE /\ todo' = todo \ {repo_url}
                /\ fetched' = fetched \cup {repo_url}
                /\ raised' = raised
                /\ IF resp = "ok"
                   THEN /\ zips' = (DaoZipPath(repo_url) :>
                                       [repo |-> repo_url, branch |-> branch, good |-> TRUE]) @@ zips
                        /\ extracted' = extractall(extracted, name, branch, DaoArchive(repo_url))
                        /\ cur' = [repo |-> repo_url, zip_url |-> zip_url,
                                   files |-> walk(extractall(extracted, name, branch,
                                                             DaoArchive(repo_url)), name)]
                        /\ pc' = "daotask"
                   ELSE IF resp = "badzip"
                   THEN /\ zips' = (DaoZipPath(repo_url) :>
                                       [repo |-> repo_url, branch |-> branch, good |-> FALSE]) @@ zips
                        /\ extracted' = extractall(extracted, name, branch, part)
                        /\ UNCHANGED <<pc, cur>>
                   ELSE UNCHANGED <<pc, cur, zips, extracted>>
    /\ UNCHANGED <<cacheFile, tree, data, run, tier, fresh, workers, loaded, organized,
                   done, calls, lastPlace, nameCount, prev, classified, writable, call>>

\* One turn of the walk's inner loop: the extension filter, validate_file,
\* cache.is_duplicate, organize_file, the collision loop, copy2.  An
\* exception leaves the repository's try block: the rest of the walk, the
\* mark and the removal of the temporary files are skipped.
DaoIngest(e) ==
    /\ pc = "daotask"
    /\ e \in cur.files
    /\ LET src   == DaoSrcPath(e)
           file  == OnDisk(extracted[e])
           valid == validate_file(src, file)
           dup   == is_duplicate(data, src, file)
           cat   == ClassOf(e).cat
           name  == ClassOf(e).name
           dest  == <<cat, dest_name(tree, cat, name)>>
           key   == <<cat, name>>
           k     == IF key \in DOMAIN nameCount THEN nameCount[key] ELSE 0
       IN  IF ClassOf(e).ext \notin ALL_EXTENSIONS
           THEN /\ cur' = [cur EXCEPT !.files = @ \ {e}]
                /\ UNCHANGED <<pc, data, tree, raised, organized, calls, lastPlace, nameCount>>
           ELSE IF valid.raised \/ (valid.ret /\ dup.raised)
           THEN /\ raised' = TRUE
                /\ cur' = DaoNoTask
                /\ pc' = "dao"
                /\ UNCHANGED <<data, tree, organized, calls, lastPlace, nameCount>>
           ELSE IF ~valid.ret
           THEN /\ cur' = [cur EXCEPT !.files = @ \ {e}]
                /\ UNCHANGED <<pc, data, tree, raised, organized, calls, lastPlace, nameCount>>
           ELSE IF dup.ret
           THEN /\ cur' = [cur EXCEPT !.files = @ \ {e}]
                /\ data' = dup.data
                /\ calls' = Counted(sha256(file.bytes), "hit")
                /\ UNCHANGED <<pc, tree, raised, organized, lastPlace, nameCount>>
           ELSE /\ cur' = [cur EXCEPT !.files = @ \ {e}]
                /\ data' = dup.data
                /\ tree' = copy2(tree, dest, file.bytes)
                /\ organized' = organized + 1
                /\ calls' = (sha256(file.bytes) :>
                                 [Indexed(sha256(file.bytes), src)[sha256(file.bytes)] EXCEPT
                                     !.placed = @ + 1]) @@ calls
                /\ lastPlace' = [cat |-> cat, name |-> name, dest |-> dest[2],
                                 before |-> DOMAIN tree, k |-> k]
                /\ nameCount' = (key :> (k + 1)) @@ nameCount
                /\ UNCHANGED <<pc, raised>>
    /\ UNCHANGED <<cacheFile, zips, extracted, run, tier, fresh, todo, workers,
                   loaded, fetched, done, prev, classified, writable, call>>

\* After the walk: cache.mark_downloaded(zip_url); cache.save(); the
\* extraction directory and the archive are removed.
DaoRepoFinish ==
    /\ pc = "daotask"
    /\ cur.files = {}
    /\ data' = mark_downloaded(data, cur.zip_url)
    /\ cacheFile' = save(mark_downloaded(data, cur.zip_url))
    /\ extracted' = rmtree(extracted, repo_name(cur.repo))
    /\ zips' = unlink(zips, DaoZipPath(cur.repo))
    /\ done' = done \cup {cur.repo}
    /\ cur' = DaoNoTask
    /\ pc' = "dao"
    /\ UNCHANGED <<tree, run, tier, fresh, todo, workers, loaded, raised, organized,
                   fetched, calls, lastPlace, nameCount, prev, classified, writable, call>>

\* download_github_repos returns and main ends.
DaoEnd ==
    /\ pc = "dao"
    /\ todo = {}
    /\ pc' = "idle"
    /\ prev' = [tier |-> tier, fresh |-> fresh, fetched |-> fetched, done |-> done,
                ended |-> TRUE]
    /\ UNCHANGED <<cacheFile, tree, zips, extracted, data, run, tier, fresh, todo, cur,
                   workers, loaded, raised, organized, fetched, done, calls, lastPlace,
                   nameCount, classified, writable, call>>

DaoNext ==
    \/ DaoStartRun
    \/ \E respMain \in DaoResponses, respMaster \in DaoResponses :
          \E part \in SUBSET UNION {DaoArchive(r) : r \in Range(GITHUB_REPOS)} :
              DaoRepoStart(respMain, respMaster, part)
    \/ \E e \in cur.files : DaoIngest(e)
    \/ DaoRepoFinish
    \/ DaoEnd

SpecDao == DaoInit /\ [][DaoNext]_vars

(***************************************************************************)
(* GITHUB RELEASES phase of mega_download.py (--tier releases): main calls *)
(* download_releases for each pair of RELEASE_REPOS, one after the other.  *)
(* cur holds the source at work: the assets still to visit, and during the *)
(* walk of an unpacked asset the files still to visit, whether the walk    *)
(* was left by an exception (aborted) and the files it then never reached  *)
(* (dropped).  call keeps the last call of cache.is_dup in a walk: the     *)
(* path and the cache before it.                                           *)
(***************************************************************************)
rel_tmp == "/tmp/mega_rel"

rel_cache_key(repo) == "v3_rel_" \o Owner(repo) \o "_" \o Name(repo)

RelHistoricalKeys(repo) ==
    <<rel_cache_key(repo),
      "mega_rel_" \o Owner(repo) \o "_" \o Name(repo),
      "rel_" \o Owner(repo) \o "_" \o Name(repo),
      "blitz_rel_" \o Owner(repo) \o "_" \o Name(repo)>>

BytesNamB == [size |-> 4096, tag1 |-> "NAM", tag2 |-> "", id |-> "m"]

\* r.json(): the assets of the releases of a source, in the order of the
\* answer.  An asset is a file (bytes) or an archive (members).
ReleaseAssets(repo) ==
    IF repo = RELEASE_REPOS[1]
    THEN <<[name |-> "models.zip", bytes |-> BytesB,
            members |-> {[dir |-> "amps", fn |-> "clean.nam", bytes |-> BytesNam],
                         [dir |-> "amps", fn |-> "lead.nam", bytes |-> BytesNamB],
                         [dir |-> "cabs", fn |-> "v30.wav", bytes |-> BytesA]}],
           [name |-> "notes.txt", bytes |-> BytesC, members |-> {}]>>
    ELSE <<[name |-> "ts9.nam", bytes |-> BytesNam, members |-> {}]>>

browser_download_url(repo, asset) ==
    "https://github.com/" \o repo \o "/releases/download/v1/" \o asset.name

\* tp = tmp / name
tp(asset) == rel_tmp \o "/" \o asset.name

\* A file of the phase: a member of the archive unpacked under
\* xd = tmp / Path(name).stem, or the asset itself (tp).
RelEntry(asset, m) == [name |-> PathStem(asset.name), branch |-> "", dir |-> m.dir, fn |-> m.fn]

AssetEntry(asset) == [name |-> "", branch |-> "", dir |-> "", fn |-> asset.name]

RelSrcPath(e) ==
    IF e.name = "" THEN rel_tmp \o "/" \o e.fn
    ELSE rel_tmp \o "/" \o e.name \o "/" \o e.dir \o "/" \o e.fn

\* What one GET of the releases API, and of an asset, can come to.
ApiResponses == {"ok", "404", "error"}

AssetResponses == {"ok", "error", "badzip"}

\* organize_file(src, f"rel/{repo_name}/{fn}") of every file of the phase,
\* computed once.
RelClassified ==
    LET files(repo) ==
            UNION {{RelEntry(ReleaseAssets(repo)[i], m) : m \in ReleaseAssets(repo)[i].members}
                   \cup {AssetEntry(ReleaseAssets(repo)[i])} :
                       i \in 1..Len(ReleaseAssets(repo))}
    IN  UNION {{[entry |-> e,
                 ext   |-> lower(PathSuffix(e.fn)),
                 cat   |-> categorize("rel/" \o Name(repo) \o "/" \o e.fn, e.fn),
                 name  |-> clean_filename("rel/" \o Name(repo) \o "/" \o e.fn, e.fn)] :
                    e \in files(repo)} : repo \in Range(RELEASE_REPOS)}

RelNoTask == [repo |-> "", assets |-> <<>>, files |-> {}, aborted |-> FALSE, dropped |-> {}]

RelInit ==
    /\ cacheFile \in {NoFile, JsonFile(DefaultData)}
    /\ tree = <<>>
    /\ zips = <<>>
    /\ extracted = <<>>
    /\ data = DefaultData
    /\ run = 0
    /\ pc = "idle"
    /\ tier = "releases"
    /\ fresh = FALSE
    /\ todo = {}
    /\ cur = RelNoTask
    /\ workers = [w \in Workers |-> IdleWorker]
    /\ loaded = NoFile
    /\ raised = FALSE
    /\ organized = 0
    /\ fetched = {}
    /\ done = {}
    /\ calls = <<>>
    /\ lastPlace = NoPlace
    /\ nameCount = <<>>
    /\ prev = NoPrev
    /\ classified = RelClassified
    /\ writable = TRUE
    /\ call = NoCall

\* for owner, rp in RELEASE_REPOS: the next one of the list.
NextRelease(left) ==
    RELEASE_REPOS[CHOOSE i \in 1..Len(RELEASE_REPOS) :
                     /\ RELEASE_REPOS[i] \in left
                     /\ \A j \in 1..(i - 1) : RELEASE_REPOS[j] \notin left]

\* download_releases up to the loop over the assets: the seen_any check
\* (outside the try: a KeyError is logged by main), the request of the
\* releases.  A 404 or 403 marks the key and returns; an exception marks the
\* key in the handler and returns; neither saves.
RelStart(resp) ==
    /\ pc = "releases"
    /\ todo # {}
    /\ todo' = todo \ {NextRelease(todo)}
    /\ LET repo == NextRelease(todo)
       IN  IF KeyError(data, "urls")
           THEN /\ raised' = TRUE
                /\ UNCHANGED <<data, pc, cur, fetched, done>>
           ELSE IF seen_any(data, RelHistoricalKeys(repo))
           THEN UNCHANGED <<data, pc, cur, fetched, done, raised>>
           ELSE /\ fetched' = fetched \cup {repo}
                /\ raised' = raised
                /\ IF resp = "ok"
                   THEN /\ cur' = [RelNoTask EXCEPT !.repo = repo,
                                                    !.assets = ReleaseAssets(repo)]
                        /\ pc' = "assets"
                        /\ UNCHANGED <<data, done>>
                   ELSE /\ data' = mark(data, rel_cache_key(repo))
                        /\ done' = done \cup {repo}
                        /\ UNCHANGED <<pc, cur>>
    /\ UNCHANGED <<cacheFile, tree, zips, extracted, run, tier, fresh, workers, loaded,
                   organized, calls, lastPlace, nameCount, prev, classified, writable, call>>

\* is_valid(src) and not cache.is_dup(src), then organize_file: what comes
\* of one file.
IngestOutcome(e, file) ==
    IF ClassOf(e).ext \notin VALID_EXT \/ ~is_valid(RelSrcPath(e), file) THEN "skip"
    ELSE IF is_dup(data, RelSrcPath(e), file).raised THEN "raise"
    ELSE IF is_dup(data, RelSrcPath(e), file).ret THEN "dup"
    ELSE "new"

\* The cache after that file: is_dup records the digest of a new one.
IngestedData(e, file) ==
    IF IngestOutcome(e, file) \in {"dup", "new"}
    THEN is_dup(data, RelSrcPath(e), file).data
    ELSE data

\* The tree and the counters after that file.
Ingested(e, file) ==
    LET h    == sha256(file.bytes)
        cat  == ClassOf(e).cat
        name == ClassOf(e).name
        dest == <<cat, dest_name(tree, cat, name)>>
        key  == <<cat, name>>
        k    == IF key \in DOMAIN nameCount THEN nameCount[key] ELSE 0
    IN  IF IngestOutcome(e, file) \in {"skip", "raise"}
        THEN UNCHANGED <<tree, organized, calls, lastPlace, nameCount>>
        ELSE IF IngestOutcome(e, file) = "dup"
        THEN /\ calls' = Counted(h, "hit")
             /\ UNCHANGED <<tree, organized, lastPlace, nameCount>>
        ELSE /\ tree' = copy2(tree, dest, file.bytes)
             /\ organized' = organized + 1
             /\ calls' = (h :> [Indexed(h, RelSrcPath(e))[h] EXCEPT !.placed = @ + 1]) @@ calls
             /\ lastPlace' = [cat |-> cat, name |-> name, dest |-> dest[2],
                              before |-> DOMAIN tree, k |-> k]
             /\ nameCount' = (key :> (k + 1)) @@ nameCount

\* One turn of the loop over the assets: the extension filter, cache.seen,
\* the download to tp.  An archive is unpacked under xd and walked; a file is
\* ingested, tp unlinked and the URL marked.  An exception (the request, the
\* read of is_dup) leaves the turn at the outer `except: pass`; an archive
\* that does not open leaves the inner try, tp is unlinked and the URL
\* marked.
RelAsset(resp, rd) ==
    /\ pc = "assets"
    /\ cur.assets # <<>>
    /\ LET asset == Head(cur.assets)
           url   == browser_download_url(cur.repo, asset)
           ext   == lower(PathSuffix(asset.name))
           e     == AssetEntry(asset)
           file  == [present |-> TRUE, readable |-> rd, bytes |-> asset.bytes]
       IN  IF (ext \notin VALID_EXT /\ ext # ".zip") \/ seen(data, url) \/ resp = "error"
           THEN /\ cur' = [cur EXCEPT !.assets = Tail(@)]
                /\ UNCHANGED <<data, tree, zips, extracted, pc, raised, organized, calls,
                               lastPlace, nameCount>>
           ELSE IF ext = ".zip"
           THEN IF resp = "badzip"
                THEN /\ cur' = [cur EXCEPT !.assets = Tail(@)]
                     /\ data' = mark(data, url)
                     /\ UNCHANGED <<tree, zips, extracted, pc, raised, organized, calls,
                                    lastPlace, nameCount>>
                ELSE /\ zips' = (tp(asset) :> [repo |-> cur.repo, branch |-> "",
                                               good |-> TRUE]) @@ zips
                     /\ extracted' = [x \in DOMAIN extracted \cup
                                              {RelEntry(asset, m) : m \in asset.members} |->
                                         IF \E m \in asset.members : RelEntry(asset, m) = x
                                         THEN (CHOOSE m \in asset.members :
                                                   RelEntry(asset, m) = x).bytes
                                         ELSE extracted[x]]
                     /\ cur' = [cur EXCEPT !.files = {RelEntry(asset, m) : m \in asset.members},
                                           !.aborted = FALSE]
                     /\ pc' = "relwalk"
                     /\ UNCHANGED <<data, tree, raised, organized, calls, lastPlace, nameCount>>
           ELSE IF IngestOutcome(e, file) = "raise"
           THEN /\ zips' = (tp(asset) :> [repo |-> cur.repo, branch |-> "",
                                          good |-> TRUE]) @@ zips
                /\ cur' = [cur EXCEPT !.assets = Tail(@)]
                /\ raised' = TRUE
                /\ UNCHANGED <<data, tree, extracted, pc, organized, calls, lastPlace,
                               nameCount>>
           ELSE /\ Ingested(e, file)
                /\ data' = mark(IngestedData(e, file), url)
                /\ cur' = [cur EXCEPT !.assets = Tail(@)]
                /\ UNCHANGED <<zips, extracted, pc, raised>>
    /\ UNCHANGED <<cacheFile, run, tier, fresh, todo, workers, loaded, fetched, done,
                   prev, classified, writable, call>>

\* One turn of the walk of xd: the extension filter, is_valid, cache.is_dup,
\* organize_file.  The walk has no try of its own: an exception of is_dup
\* leaves it at the `except: pass` of the archive, past the files not yet
\* visited and past rmtree(xd).
RelIngest(e, rd) ==
    /\ pc = "relwalk"
    /\ e \in cur.files
    /\ LET file == [present |-> TRUE, readable |-> rd, bytes |-> extracted[e]]
       IN  /\ Ingested(e, file)
           /\ data' = IngestedData(e, file)
           /\ IF IngestOutcome(e, file) = "raise"
              THEN /\ raised' = TRUE
                   /\ cur' = [cur EXCEPT !.files = {}, !.aborted = TRUE,
                                         !.dropped = cur.files \ {e}]
              ELSE /\ raised' = raised
                   /\ cur' = [cur EXCEPT !.files = @ \ {e}]
           /\ call' = IF IngestOutcome(e, file) = "skip" THEN call
                      ELSE [op |-> "is_dup", key |-> RelSrcPath(e), before |-> data]
    /\ UNCHANGED <<cacheFile, zips, extracted, run, pc, tier, fresh, todo, workers,
                   loaded, fetched, done, prev, classified, writable>>

\* After the archive: shutil.rmtree(xd) when the walk came to its end,
\* tp.unlink(), cache.mark(url).
RelWalkEnd ==
    /\ pc = "relwalk"
    /\ cur.files = {}
    /\ LET asset == Head(cur.assets)
       IN  /\ extracted' = IF cur.aborted THEN extracted
                           ELSE rmtree(extracted, PathStem(asset.name))
           /\ zips' = unlink(zips, tp(asset))
           /\ data' = mark(data, browser_download_url(cur.repo, asset))
    /\ cur' = [cur EXCEPT !.assets = Tail(@), !.aborted = FALSE, !.dropped = {}]
    /\ pc' = "assets"
    /\ UNCHANGED <<cacheFile, tree, run, tier, fresh, todo, workers, loaded, raised,
                   organized, fetched, done, calls, lastPlace, nameCount, prev,
                   classified, writable, call>>

\* download_releases after the loop: cache.mark(cache_key); cache.save().
\* A save that raises is caught by the function's handler, which marks the
\* key again and returns.
RelFinish ==
    /\ pc = "assets"
    /\ cur.assets = <<>>
    /\ data' = mark(data, rel_cache_key(cur.repo))
    /\ IF writable
       THEN /\ cacheFile' = save(mark(data, rel_cache_key(cur.repo)))
            /\ raised' = raised
       ELSE /\ cacheFile' = cacheFile
            /\ raised' = TRUE
    /\ done' = done \cup {cur.repo}
    /\ cur' = RelNoTask
    /\ pc' = "releases"
    /\ UNCHANGED <<tree, zips, extracted, run, tier, fresh, todo, workers, loaded,
                   organized, fetched, calls, lastPlace, nameCount, prev, classified,
                   writable, call>>

\* main, at the end of the RELEASES block: the counts are logged and nothing
\* is saved.
RelPhaseEnd ==
    /\ pc = "releases"
    /\ todo = {}
    /\ pc' = "final"
    /\ UNCHANGED <<cacheFile, tree, zips, extracted, data, run, tier, fresh, todo, cur,
                   workers, loaded, raised, organized, fetched, done, calls, lastPlace,
                   nameCount, prev, classified, writable, call>>

RelNext ==
    \/ \E f \in BOOLEAN : StartRun("releases", f)
    \/ ArgsFresh
    \/ PreCleanup
    \/ PhaseSave
    \/ \E resp \in ApiResponses : RelStart(resp)
    \/ \E resp \in AssetResponses, rd \in BOOLEAN : RelAsset(resp, rd)
    \/ \E e \in cur.files, rd \in BOOLEAN : RelIngest(e, rd)
    \/ RelWalkEnd
    \/ RelFinish
    \/ RelPhaseEnd
    \/ Summary

SpecReleases == RelInit /\ [][RelNext]_vars

(***************************************************************************)
(* TONE3000 tier of download_and_organize.py (--tier tone3000-amps):       *)
(* download_tone3000 with gear_filter = ["amp", "ir"].  cur holds the      *)
(* gears still to do (the first is the one at work), the page, total_pages *)
(* as the server last gave it, the tones of the page and the models of the *)
(* tone still to visit, and stats["downloaded"].                           *)
(***************************************************************************)
gear_filter == <<"amp", "ir">>

max_pages == 2000

\* if stats["downloaded"] % 50 == 0
SaveEvery == 50

\* The values the server gives for total_pages.
TotalPages == {1, 2}

BytesNamC == [size |-> 4096, tag1 |-> "NAM", tag2 |-> "", id |-> "p"]

\* data.get("data", []) of a page of the search that has tones.
Tones(gear) ==
    IF gear = "amp"
    THEN <<[id |-> "7", title |-> "Plexi", gear |-> "amp"]>>
    ELSE <<[id |-> "9", title |-> "Plexi", gear |-> "ir"]>>

\* models_data.get("data", []) of a tone, with what the download of each
\* model gives.
Models(tone) ==
    IF tone.id = "7"
    THEN <<[name |-> "Plexi", model_url |-> "https://www.tone3000.com/m/7/plexi.nam",
            ct |-> "application/json", bytes |-> BytesNam],
           [name |-> "Cab: V30", model_url |-> "https://www.tone3000.com/m/7/v30",
            ct |-> "audio/wav", bytes |-> BytesA]>>
    ELSE <<[name |-> "Plexi", model_url |-> "https://www.tone3000.com/m/9/plexi.nam",
            ct |-> "application/json", bytes |-> BytesNamB],
           [name |-> "", model_url |-> "https://www.tone3000.com/m/9/b.nam",
            ct |-> "application/json", bytes |-> BytesNamC],
           [name |-> "Plexi", model_url |-> "https://www.tone3000.com/m/9/c.nam",
            ct |-> "application/json", bytes |-> BytesNam],
           [name |-> "", model_url |-> "", ct |-> "", bytes |-> BytesBad]>>

\* urlparse(model_url).path
url_path(url) ==
    LET rest == SubSeq(url, Len("https://") + 1, Len(url))
    IN  IF \E i \in 1..Len(rest) : CharAt(rest, i) = "/"
        THEN SubSeq(rest, Len(split(rest, "/")[1]) + 1, Len(rest))
        ELSE ""

\* The extension from the URL, else from the Content-Type.
model_ext(model) ==
    LET ext == lower(PathSuffix(url_path(model.model_url)))
    IN  IF ext \in ALL_EXTENSIONS THEN ext
        ELSE IF Contains(model.ct, "wav") THEN ".wav"
        ELSE ".nam"

\* re.sub(r'[<>:"/\\|?*]', '_', title)
RECURSIVE sub_unsafe(_)
sub_unsafe(t) ==
    IF Len(t) = 0 THEN ""
    ELSE (IF CharAt(t, 1) \in {"<", ">", ":", "\"", "/", "\\", "|", "?", "*"}
          THEN "_" ELSE CharAt(t, 1)) \o sub_unsafe(SubSeq(t, 2, Len(t)))

fname(tone, model) ==
    IF model.name # "" /\ model.name # tone.title
    THEN sub_unsafe(tone.title) \o "_" \o sub_unsafe(model.name) \o model_ext(model)
    ELSE sub_unsafe(tone.title) \o model_ext(model)

tmp_path(tone, model) == "/tmp/tone3000_tmp/" \o fname(tone, model)

ToneEntry(tone, model) ==
    [name |-> tone.id, branch |-> "", dir |-> tone.gear, fn |-> model.model_url]

\* Of every model, computed once: tmp_path, validate_file(tmp_path) of the
\* bytes its download gives, organizer.organize_file(tmp_path, context), and
\* the name with the tone id appended (f"{stem}_{tone_id}{suffix}").
ToneClassified ==
    LET ctx(tone, model) ==
            "tone3000/" \o tone.gear \o "/" \o tone.title \o "/" \o fname(tone, model)
        all == UNION {{<<Tones(gear_filter[g])[i], Models(Tones(gear_filter[g])[i])[j]>> :
                          j \in 1..Len(Models(Tones(gear_filter[g])[i]))} :
                      g \in 1..Len(gear_filter), i \in {1}}
        named(tone, model) == FileOrganizer_organize_file(fname(tone, model), ctx(tone, model))
    IN  {[entry |-> ToneEntry(x[1], x[2]),
          ext   |-> model_ext(x[2]),
          tmp   |-> tmp_path(x[1], x[2]),
          valid |-> validate_file(tmp_path(x[1], x[2]), OnDisk(x[2].bytes)),
          cat   |-> named(x[1], x[2])[1],
          name  |-> named(x[1], x[2])[2],
          alt   |-> PathStem(named(x[1], x[2])[2]) \o "_" \o x[1].id
                        \o PathSuffix(named(x[1], x[2])[2])] :
            x \in {y \in all : y[2].model_url # ""}}

ToneNoTask ==
    [gears |-> <<>>, page |-> 1, total_pages |-> 1, tones |-> <<>>, models |-> <<>>,
     downloaded |-> 0]

ToneInit ==
    /\ cacheFile \in {NoFile, CorruptFile}
    /\ tree = <<>>
    /\ zips = <<>>
    /\ extracted = <<>>
    /\ data = LegacyData
    /\ run = 0
    /\ pc = "idle"
    /\ tier = "tone3000-amps"
    /\ fresh = FALSE
    /\ todo = {}
    /\ cur = ToneNoTask
    /\ workers = [w \in Workers |-> IdleWorker]
    /\ loaded = NoFile
    /\ raised = FALSE
    /\ organized = 0
    /\ fetched = {}
    /\ done = {}
    /\ calls = <<>>
    /\ lastPlace = NoPlace
    /\ nameCount = <<>>
    /\ prev = NoPrev
    /\ classified = ToneClassified
    /\ writable = TRUE
    /\ call = NoCall

toneFrame ==
    <<zips, extracted, tier, fresh, todo, workers, loaded, raised, fetched, done, calls,
      lastPlace, nameCount, classified, writable, call>>

\* main: cache = DownloadCache(), then download_tone3000, which returns at
\* once when TONE3000_API_KEY is not set.
ToneStartRun(key) ==
    /\ pc = "idle"
    /\ run < MaxRuns
    /\ run' = run + 1
    /\ data' = DownloadCache_load(cacheFile)
    /\ organized' = 0
    /\ IF key
       THEN /\ cur' = [ToneNoTask EXCEPT !.gears = gear_filter]
            /\ pc' = "page"
            /\ prev' = prev
       ELSE /\ cur' = ToneNoTask
            /\ pc' = "idle"
            /\ prev' = [prev EXCEPT !.ended = TRUE]
    /\ UNCHANGED <<cacheFile, tree, toneFrame>>

\* for gear in gear_types, after the last gear: cache.save(); return stats.
ToneEnd ==
    /\ pc = "page"
    /\ cur.gears = <<>>
    /\ cacheFile' = save(data)
    /\ pc' = "idle"
    /\ prev' = [prev EXCEPT !.ended = TRUE]
    /\ UNCHANGED <<tree, data, run, cur, organized, toneFrame>>

\* One turn of `while page <= min(total_pages, max_pages)`: the test, the
\* request of the page.  A 429 sleeps and takes the turn again, with the
\* same page; an exception counts the page; a page without tones ends the
\* gear.
TonePage(resp, total) ==
    /\ pc = "page"
    /\ cur.gears # <<>>
    /\ IF cur.page > (IF cur.total_pages < max_pages THEN cur.total_pages ELSE max_pages)
          \/ resp = "empty"
       THEN /\ cur' = [cur EXCEPT !.gears = Tail(@), !.page = 1, !.total_pages = 1]
            /\ pc' = "page"
       ELSE IF resp = "429"
       THEN /\ cur' = cur
            /\ pc' = "sleep"
       ELSE IF resp = "error"
       THEN /\ cur' = [cur EXCEPT !.page = @ + 1]
            /\ pc' = "page"
       ELSE /\ cur' = [cur EXCEPT !.total_pages = total, !.tones = Tones(Head(cur.gears))]
            /\ pc' = "tones"
    /\ UNCHANGED <<cacheFile, tree, data, run, organized, prev, toneFrame>>

\* time.sleep(wait); continue
ToneSleep ==
    /\ pc = "sleep"
    /\ pc' = "page"
    /\ UNCHANGED <<cacheFile, tree, data, run, cur, organized, prev, toneFrame>>

\* One turn of `for tone in tones` up to the loop over its models: the
\* request of the models, once more after a 429; an exception goes on to the
\* next tone.
ToneModels(resp) ==
    /\ pc = "tones"
    /\ cur.tones # <<>>
    /\ IF resp = "ok"
       THEN /\ cur' = [cur EXCEPT !.models = Models(Head(cur.tones))]
            /\ pc' = "models"
       ELSE /\ cur' = [cur EXCEPT !.tones = Tail(@)]
            /\ pc' = "tones"
    /\ UNCHANGED <<cacheFile, tree, data, run, organized, prev, toneFrame>>

\* After the last tone of the page: page += 1.
TonePageEnd ==
    /\ pc = "tones"
    /\ cur.tones = <<>>
    /\ cur' = [cur EXCEPT !.page = @ + 1]
    /\ pc' = "page"
    /\ UNCHANGED <<cacheFile, tree, data, run, organized, prev, toneFrame>>

\* One turn of `for model in models`: the checks on the URL, the download,
\* the file written under /tmp/tone3000_tmp, validate_file and
\* is_duplicate, organize_file, the tone id appended when the destination
\* exists, the move, mark_downloaded.  A failed download goes on to the
\* next model.
ToneModel(resp) ==
    /\ pc = "models"
    /\ cur.models # <<>>
    /\ LET tone  == Head(cur.tones)
           model == Head(cur.models)
           e     == ToneEntry(tone, model)
           file  == OnDisk(model.bytes)
           valid == ClassOf(e).valid
           dup   == is_duplicate(data, ClassOf(e).tmp, file)
           cat   == ClassOf(e).cat
           name  == ClassOf(e).name
           dest  == IF Exists(tree, cat, name) THEN <<cat, ClassOf(e).alt>> ELSE <<cat, name>>
       IN  IF model.model_url = "" \/ is_downloaded(data, model.model_url) \/ resp = "error"
           THEN /\ cur' = [cur EXCEPT !.models = Tail(@)]
                /\ UNCHANGED <<data, tree, organized>>
           ELSE IF valid.ret /\ ~dup.ret
           THEN /\ tree' = copy2(tree, dest, model.bytes)
                /\ data' = mark_downloaded(dup.data, model.model_url)
                /\ organized' = organized + 1
                /\ cur' = [cur EXCEPT !.models = Tail(@), !.downloaded = @ + 1]
           ELSE /\ data' = mark_downloaded(IF valid.ret THEN dup.data ELSE data,
                                           model.model_url)
                /\ cur' = [cur EXCEPT !.models = Tail(@)]
                /\ UNCHANGED <<tree, organized>>
    /\ UNCHANGED <<cacheFile, run, pc, prev, toneFrame>>

\* After the last model of the tone:
\* if stats["downloaded"] % 50 == 0: cache.save()
ToneModelsEnd ==
    /\ pc = "models"
    /\ cur.models = <<>>
    /\ cacheFile' = IF cur.downloaded % SaveEvery = 0 THEN save(data) ELSE cacheFile
    /\ cur' = [cur EXCEPT !.tones = Tail(@)]
    /\ pc' = "tones"
    /\ UNCHANGED <<tree, data, run, organized, prev, toneFrame>>

ToneNext ==
    \/ \E key \in BOOLEAN : ToneStartRun(key)
    \/ \E resp \in {"429", "error", "empty", "tones"}, total \in TotalPages :
          TonePage(resp, total)
    \/ ToneSleep
    \/ \E resp \in {"ok", "error"} : ToneModels(resp)
    \/ TonePageEnd
    \/ \E resp \in {"ok", "error"} : ToneModel(resp)
    \/ ToneModelsEnd
    \/ ToneEnd

\* The script is one thread: as long as a step is possible, one is taken.
SpecTone == ToneInit /\ [][ToneNext]_vars /\ WF_vars(ToneNext)

(***************************************************************************)
(* The cache object on its own: mark (mega_download.py) and mark_downloaded *)
(* (download_and_organize.py) called one after the other, with any keys,    *)
(* on a cache that starts with its default tables.  call keeps the last     *)
(* call: the key, the list before it, and (order) the keys of all the calls *)
(* so far, each once, in the order in which they were first given.          *)
(***************************************************************************)
MarkKeys ==
    {cache_key(REPOS[1]), cache_key(REPOS[2]), archive_url(GITHUB_REPOS[1], "main"),
     archive_url(GITHUB_REPOS[1], "master")}

\* The list of seen keys, under the field name the script uses.
SeenList(d) == IF "urls" \in DOMAIN d THEN d.urls ELSE d.downloaded_urls

FirstGiven(order, key) == IF InList(order, key) THEN order ELSE Append(order, key)

CacheInit ==
    /\ cacheFile = NoFile
    /\ tree = <<>>
    /\ zips = <<>>
    /\ extracted = <<>>
    /\ data \in {DefaultData, LegacyData}
    /\ run = 1
    /\ pc = "cache"
    /\ tier = ""
    /\ fresh = FALSE
    /\ todo = {}
    /\ cur = NoTask
    /\ workers = [w \in Workers |-> IdleWorker]
    /\ loaded = NoFile
    /\ raised = FALSE
    /\ organized = 0
    /\ fetched = {}
    /\ done = {}
    /\ calls = <<>>
    /\ lastPlace = NoPlace
    /\ nameCount = <<>>
    /\ prev = NoPrev
    /\ classified = {}
    /\ writable = TRUE
    /\ call = [op |-> "", key |-> "", before |-> <<>>, order |-> <<>>]

cacheFrame ==
    <<cacheFile, tree, zips, extracted, run, pc, tier, fresh, todo, cur, workers, loaded,
      raised, organized, fetched, done, calls, lastPlace, nameCount, prev, classified,
      writable>>

\* cache.mark(key)
CallMark(key) ==
    /\ pc = "cache"
    /\ "urls" \in DOMAIN data
    /\ data' = mark(data, key)
    /\ call' = [op |-> "mark", key |-> key, before |-> data.urls,
                order |-> FirstGiven(call.order, key)]
    /\ UNCHANGED cacheFrame

\* cache.mark_downloaded(url)
CallMarkDownloaded(url) ==
    /\ pc = "cache"
    /\ "downloaded_urls" \in DOMAIN data
    /\ data' = mark_downloaded(data, url)
    /\ call' = [op |-> "mark_downloaded", key |-> url, before |-> data.downloaded_urls,
                order |-> FirstGiven(call.order, url)]
    /\ UNCHANGED cacheFrame

CacheNext ==
    \/ \E key \in MarkKeys : CallMark(key)
    \/ \E url \in MarkKeys : CallMarkDownloaded(url)

SpecCache == CacheInit /\ [][CacheNext]_vars

(***************************************************************************)
(* Cache.save beside the pool's other workers (blitz_download.py).  A      *)
(* worker that finished a source calls cache.save() while the others are   *)
(* still in their walks, calling cache.is_dup and cache.mark on the same   *)
(* object; Cache has no lock.  save is three steps: the mkdir of the cache *)
(* directory, json.dumps(self.data), and write_text of the string that     *)
(* json.dumps returned.  json.dumps runs in the C encoder without giving   *)
(* up the interpreter lock, so it is one step; the other workers run       *)
(* before it, and between it and the write.  call[w] keeps worker w's      *)
(* save: the step it is at, every value self.data has had since the save   *)
(* began, and what the save wrote.                                         *)
(***************************************************************************)
SaveKeys == {"github:a/x", "github:b/y"}

SaveSources == {[path |-> "a/cab.wav", bytes |-> BytesA], [path |-> "b/cab.wav", bytes |-> BytesB]}

NoSave == [at |-> "idle", during |-> {}, text |-> NoFile, written |-> NoFile]

SaveInit ==
    /\ cacheFile = NoFile
    /\ tree = <<>>
    /\ zips = <<>>
    /\ extracted = <<>>
    /\ data = DefaultData
    /\ run = 1
    /\ pc = "save"
    /\ tier = ""
    /\ fresh = FALSE
    /\ todo = {}
    /\ cur = NoTask
    /\ workers = [w \in Workers |-> IdleWorker]
    /\ loaded = NoFile
    /\ raised = FALSE
    /\ organized = 0
    /\ fetched = {}
    /\ done = {}
    /\ calls = <<>>
    /\ lastPlace = NoPlace
    /\ nameCount = <<>>
    /\ prev = NoPrev
    /\ classified = {}
    /\ writable = TRUE
    /\ call = [w \in Workers |-> NoSave]

saveFrame ==
    <<tree, zips, extracted, run, pc, tier, fresh, todo, cur, workers, loaded, raised,
      organized, fetched, done, calls, lastPlace, nameCount, prev, classified, writable>>

InSave(w) == call[w].at \in {"save", "dumped"}

\* What the saves in progress see when self.data becomes d.
Seen(d) == [v \in Workers |-> IF InSave(v) THEN [call[v] EXCEPT !.during = @ \cup {d}] ELSE call[v]]

\* Worker w, in its walk, calls cache.mark(key).
WorkerMark(w, key) ==
    /\ pc = "save"
    /\ ~InSave(w)
    /\ data' = mark(data, key)
    /\ call' = Seen(data')
    /\ UNCHANGED <<cacheFile, saveFrame>>

\* Worker w, in its walk, calls cache.is_dup(src).
WorkerIsDup(w, src) ==
    /\ pc = "save"
    /\ ~InSave(w)
    /\ data' = is_dup(data, src.path, OnDisk(src.bytes)).data
    /\ call' = Seen(data')
    /\ UNCHANGED <<cacheFile, saveFrame>>

\* Worker w enters cache.save(): CACHE_FILE.parent.mkdir(...).
SaveBegin(w) ==
    /\ pc = "save"
    /\ ~InSave(w)
    /\ call' = [call EXCEPT ![w] = [at |-> "save", during |-> {data}, text |-> NoFile,
                                    written |-> NoFile]]
    /\ UNCHANGED <<cacheFile, data, saveFrame>>

\* json.dumps(self.data): the argument of write_text.
SaveDumps(w) ==
    /\ pc = "save"
    /\ call[w].at = "save"
    /\ call' = [call EXCEPT ![w].at = "dumped", ![w].text = save(data)]
    /\ UNCHANGED <<cacheFile, data, saveFrame>>

\* CACHE_FILE.write_text(...): the string goes to the cache file.
SaveWrite(w) ==
    /\ pc = "save"
    /\ call[w].at = "dumped"
    /\ cacheFile' = call[w].text
    /\ call' = [call EXCEPT ![w].at = "written", ![w].written = call[w].text]
    /\ UNCHANGED <<data, saveFrame>>

SaveNext ==
    \/ \E w \in Workers, key \in SaveKeys : WorkerMark(w, key)
    \/ \E w \in Workers, src \in SaveSources : WorkerIsDup(w, src)
    \/ \E w \in Workers : SaveBegin(w)
    \/ \E w \in Workers : SaveDumps(w)
    \/ \E w \in Workers : SaveWrite(w)

SpecSave == SaveInit /\ [][SaveNext]_vars

(***************************************************************************)
(* The validators on their own: is_valid (mega_download.py and             *)
(* blitz_download.py) and validate_file (download_and_organize.py) called  *)
(* on any path with any file.  call keeps the last call: the script, the   *)
(* path, the file, the result and whether the call raised.                 *)
(***************************************************************************)
ValidatorPaths ==
    {"ir/cab.wav", "ir/CAB.WAV", "amp/m.nam", "amp/m.json", "ir/cab.flac", "doc/notes.txt"}

Sizes == {0, 11, 12, 99, 100, 4096}

\* The files: none at the path, or one of each size with each pair of tags
\* (a file shorter than the header has none), readable or not.
ValidatorFiles ==
    {[present |-> FALSE, readable |-> FALSE,
      bytes |-> [size |-> 0, tag1 |-> "", tag2 |-> "", id |-> "v"]]}
    \cup {[present |-> TRUE, readable |-> r,
           bytes |-> [size |-> s,
                      tag1 |-> IF s < HeaderLen THEN "" ELSE t1,
                      tag2 |-> IF s < HeaderLen THEN "" ELSE t2,
                      id |-> "v"]] :
              r \in BOOLEAN, s \in Sizes, t1 \in {"RIFF", "JSON"}, t2 \in {"WAVE", "WAVX"}}

ValidatorInit ==
    /\ cacheFile = NoFile
    /\ tree = <<>>
    /\ zips = <<>>
    /\ extracted = <<>>
    /\ data = DefaultData
    /\ run = 1
    /\ pc = "validator"
    /\ tier = ""
    /\ fresh = FALSE
    /\ todo = {}
    /\ cur = NoTask
    /\ workers = [w \in Workers |-> IdleWorker]
    /\ loaded = NoFile
    /\ raised = FALSE
    /\ organized = 0
    /\ fetched = {}
    /\ done = {}
    /\ calls = <<>>
    /\ lastPlace = NoPlace
    /\ nameCount = <<>>
    /\ prev = NoPrev
    /\ classified = {}
    /\ writable = TRUE
    /\ call = [op |-> "", script |-> "", path |-> "", ext |-> "",
               file |-> CHOOSE f \in ValidatorFiles : ~f.present,
               raised |-> FALSE, ret |-> FALSE]

callFrame ==
    <<cacheFile, tree, zips, extracted, data, run, pc, tier, fresh, todo, cur, workers,
      loaded, raised, organized, fetched, done, calls, lastPlace, nameCount, prev,
      classified, writable>>

\* is_valid(path) of mega_download.py
CallIsValid(path, f) ==
    /\ pc = "validator"
    /\ call' = [op |-> "is_valid", script |-> "mega", path |-> path,
                ext |-> lower(PathSuffix(path)), file |-> f,
                raised |-> FALSE, ret |-> is_valid(path, f)]
    /\ UNCHANGED callFrame

\* is_valid(path) of blitz_download.py
CallBlitzIsValid(path, f) ==
    /\ pc = "validator"
    /\ call' = [op |-> "is_valid", script |-> "blitz", path |-> path,
                ext |-> lower(PathSuffix(path)), file |-> f,
                raised |-> blitz_is_valid(path, f).raised,
                ret |-> blitz_is_valid(path, f).ret]
    /\ UNCHANGED callFrame

\* validate_file(path) of download_and_organize.py
CallValidateFile(path, f) ==
    /\ pc = "validator"
    /\ call' = [op |-> "validate_file", script |-> "dao", path |-> path,
                ext |-> lower(PathSuffix(path)), file |-> f,
                raised |-> validate_file(path, f).raised,
                ret |-> validate_file(path, f).ret]
    /\ UNCHANGED callFrame

ValidatorNext ==
    \/ \E path \in ValidatorPaths, f \in ValidatorFiles : CallIsValid(path, f)
    \/ \E path \in ValidatorPaths, f \in ValidatorFiles : CallBlitzIsValid(path, f)
    \/ \E path \in ValidatorPaths, f \in ValidatorFiles : CallValidateFile(path, f)

SpecValidator == ValidatorInit /\ [][ValidatorNext]_vars

(***************************************************************************)
(* The classifier on its own: categorize (mega_download.py and             *)
(* blitz_download.py) and clean_filename (mega_download.py) called once on *)
(* a context and a file name.  cur holds the arguments, call the call made: *)
(* the script, the arguments and the result.                               *)
(***************************************************************************)
ClassifierContexts ==
    {"Marshall JCM800 4x12 V30 SM57 high gain",
     "packs/Marshall JCM800 4x12 V30 SM57 high gain/cab.wav",
     "sm57 4x12 crunch recto",
     "fender twin 2x12 r121 clean",
     "svt 8x10 md421",
     "bass/svt/cab.wav",
     "hall_reverb_demo.wav",
     "irs/01.wav",
     "bass/reverb/cab.wav",
     "acoustic/room/x.wav",
     "martin/echo/b15.wav",
     "."}

ClassifierFilenames ==
    {"cab.wav", "IR (1).WAV", "model.nam", "hall_reverb_demo.wav", "demo.wav"}

ClassifierInit ==
    /\ cacheFile = NoFile
    /\ tree = <<>>
    /\ zips = <<>>
    /\ extracted = <<>>
    /\ data = DefaultData
    /\ run = 1
    /\ pc = "classifier"
    /\ tier = ""
    /\ fresh = FALSE
    /\ todo = {}
    /\ cur \in [context : ClassifierContexts, filename : ClassifierFilenames]
    /\ workers = [w \in Workers |-> IdleWorker]
    /\ loaded = NoFile
    /\ raised = FALSE
    /\ organized = 0
    /\ fetched = {}
    /\ done = {}
    /\ calls = <<>>
    /\ lastPlace = NoPlace
    /\ nameCount = <<>>
    /\ prev = NoPrev
    /\ classified = {}
    /\ writable = TRUE
    /\ call = [op |-> "", script |-> "", context |-> "", filename |-> "", ret |-> ""]

classifierFrame ==
    <<cacheFile, tree, zips, extracted, data, run, tier, fresh, todo, cur, workers,
      loaded, raised, organized, fetched, done, calls, lastPlace, nameCount, prev,
      classified, writable>>

\* categorize(context, filename) of mega_download.py
CallCategorize ==
    /\ pc = "classifier"
    /\ pc' = "called"
    /\ call' = [op |-> "categorize", script |-> "mega", context |-> cur.context,
                filename |-> cur.filename, ret |-> categorize(cur.context, cur.filename)]
    /\ UNCHANGED classifierFrame

\* categorize(context, filename) of blitz_download.py
CallBlitzCategorize ==
    /\ pc = "classifier"
    /\ pc' = "called"
    /\ call' = [op |-> "categorize", script |-> "blitz", context |-> cur.context,
                filename |-> cur.filename,
                ret |-> blitz_categorize(cur.context, cur.filename)]
    /\ UNCHANGED classifierFrame

\* clean_filename(context, filename) of mega_download.py
CallCleanFilename ==
    /\ pc = "classifier"
    /\ pc' = "called"
    /\ call' = [op |-> "clean_filename", script |-> "mega", context |-> cur.context,
                filename |-> cur.filename,
                ret |-> clean_filename(cur.context, cur.filename)]
    /\ UNCHANGED classifierFrame

ClassifierNext ==
    \/ CallCategorize
    \/ CallBlitzCategorize
    \/ CallCleanFilename

SpecClassifier == ClassifierInit /\ [][ClassifierNext]_vars

(***************************************************************************)
(* Properties of runs whose tasks do not overlap (Spec).                    *)
(***************************************************************************)
KeysOf(d) == IF "urls" \in DOMAIN d THEN Range(d.urls) ELSE {}

DigestsOf(d) == IF "hashes" \in DOMAIN d THEN DOMAIN d.hashes ELSE {}

Ingesting == pc \in {"phase", "task", "final"}

\* The files of the output tree that hold the content of digest h.
CopiesOf(h) == {p \in DOMAIN tree : sha256(tree[p]) = h}

\* C1: of the files with the same bytes ingested one after the other (the
\* cache not having that content when the run starts), is_dup returns False
\* for the first and True for every later one, and exactly one of them is in
\* the output tree: a hit never comes before the miss, there is one miss, one
\* copy is made, and it is in the tree while the run ingests.
DedupSequential ==
    \A h \in DOMAIN calls :
        h \notin DigestsOf(Cache_init(loaded).data)
        => /\ calls[h].miss = 1
           /\ calls[h].placed = 1
           /\ Ingesting => CopiesOf(h) # {}

DedupSequentialWitness ==
    \E h \in DOMAIN calls :
        /\ h \notin DigestsOf(Cache_init(loaded).data)
        /\ calls[h].miss = 1
        /\ calls[h].hit = 1
        /\ Cardinality(CopiesOf(h)) = 1

\* C3: a second run of the same ingest tier over the same sources, after a
\* first run that reached its end, organizes no file and sends no request
\* for a source the first run fetched.
RunIdempotent ==
    (/\ run = 2
     /\ Ingesting
     /\ prev.ended
     /\ prev.tier = tier
     /\ tier \in {"github", "all"}
     /\ ~fresh
     /\ ~prev.fresh)
    => /\ organized = 0
       /\ fetched \cap prev.fetched = {}

\* C4 as stated: no step of a run removes a key from the seen list.
SeenMonotonic ==
    [][run' = run => KeysOf(data) \subseteq KeysOf(data')]_vars

\* C4, amended: no step of a run other than the --fresh reset at its start
\* (reset_for_expansion, before any source is looked at) removes a key from
\* the seen list.
SeenMonotonicAfterReset ==
    [][(run' = run /\ ~(pc = "init" /\ fresh)) => KeysOf(data) \subseteq KeysOf(data')]_vars

SeenMonotonicWitness ==
    /\ pc = "final"
    /\ ~fresh
    /\ "urls" \in DOMAIN data
    /\ Len(data.urls) = Cardinality(RunSources)
    /\ cache_key(REPOS[1]) \in KeysOf(data)
    /\ cache_key(REPOS[2]) \in KeysOf(data)

\* C6: a Cache constructed over a missing or unparseable cache file holds the
\* empty tables, the construction raises nothing, and no later call on it
\* raises: the run goes on with both tables in place.
CacheResilient ==
    (run > 0 /\ loaded.kind \in {"missing", "corrupt"})
    => /\ pc # "crashed"
       /\ ~raised
       /\ DOMAIN data = {"urls", "hashes"}
       /\ pc = "init" => data = DefaultData

CacheResilientWitness ==
    /\ loaded.kind = "corrupt"
    /\ pc = "final"
    /\ organized > 0
    /\ cacheFile = save(data)
    /\ Len(data.urls) > 0

\* C7: after loading a well-formed cache file, whatever fields it has, no
\* seen, seen_any, mark or is_dup call raises.
OlderCacheReadable ==
    (run > 0 /\ loaded.kind = "json") => ~raised

\* C8 as stated: the k-th file that computes a name already used gets the
\* suffix _k.
CollisionSuffixIsCount ==
    lastPlace.k >= 1 => lastPlace.dest = Suffixed(lastPlace.name, lastPlace.k)

\* C8, amended: organize_file never writes to a path that existed before the
\* call, so two inputs computing the same name in the same category are two
\* files afterwards; the computed name is used when it is free, and otherwise
\* the file gets stem_i for the smallest i >= 1 whose name is free, which is
\* _k for the k-th colliding file only while no other file's own name is one
\* of stem_1 .. stem_k.
CollisionSmallestFree ==
    lastPlace # NoPlace =>
        /\ <<lastPlace.cat, lastPlace.dest>> \notin lastPlace.before
        /\ IF <<lastPlace.cat, lastPlace.name>> \notin lastPlace.before
           THEN lastPlace.dest = lastPlace.name
           ELSE \E i \in 1..(Cardinality(lastPlace.before) + 1) :
                   /\ lastPlace.dest = Suffixed(lastPlace.name, i)
                   /\ \A j \in 1..(i - 1) :
                         <<lastPlace.cat, Suffixed(lastPlace.name, j)>> \in lastPlace.before
        /\ Ingesting => <<lastPlace.cat, lastPlace.dest>> \in DOMAIN tree

CollisionWitness ==
    /\ lastPlace.k = 1
    /\ <<lastPlace.cat, lastPlace.name>> \in lastPlace.before
    /\ <<lastPlace.cat, Suffixed(lastPlace.name, 1)>> \in lastPlace.before
    /\ lastPlace.dest = Suffixed(lastPlace.name, 2)

\* C13: a Cache.save that fails, inside a source task or at the end of a
\* phase in main, does not end the run: the run goes on to its summary.
SaveFailureSurvived ==
    (~writable /\ ~fresh) => pc # "crashed"

(***************************************************************************)
(* Properties of the releases phase (SpecReleases).                        *)
(***************************************************************************)
\* C14: when a run has finished normally, the cache file holds every key of
\* the seen list in memory and every digest of the hash index in memory,
\* the keys marked on a failure path (a 404, an exception of
\* download_releases) included.
CacheFlushedAtEnd ==
    (run > 0 /\ pc = "idle") =>
        /\ cacheFile.kind = "json"
        /\ KeysOf(data) \subseteq KeysOf(cacheFile.data)
        /\ DigestsOf(data) \subseteq DigestsOf(cacheFile.data)

\* C15: when the read fails inside is_dup, the hash index and the seen list
\* are as before the call, and the task goes on to its next file: no other
\* file of the walk is left out.
HashFailureContained ==
    (pc = "relwalk" /\ cur.aborted) =>
        /\ data = call.before
        /\ cur.dropped = {}

HasWavHeader == call.file.bytes.tag1 = "RIFF" /\ call.file.bytes.tag2 = "WAVE"

\* The last call was on a file that is there and can be read.
CalledOnFile == call.op # "" /\ call.file.present /\ call.file.readable

\* C17 as stated: for every file, the validator returns True exactly when
\* the size is at least 100 bytes and the file is a .wav with the tags RIFF
\* and WAVE or a .nam.
ValidatorResult ==
    CalledOnFile =>
        (call.ret <=> /\ call.file.bytes.size >= MinSize
                      /\ \/ call.ext = ".wav" /\ HasWavHeader
                         \/ call.ext = ".nam")

\* C17 amended: that is the result of is_valid (mega_download.py and
\* blitz_download.py); validate_file (download_and_organize.py) returns True
\* exactly when the size is at least 100 bytes, a .wav has the tags RIFF and
\* WAVE, and a .json parses: it accepts every other extension on its size.
ValidatorResultByScript ==
    CalledOnFile =>
        IF call.op = "is_valid"
        THEN (call.ret <=> /\ call.file.bytes.size >= MinSize
                           /\ \/ call.ext = ".wav" /\ HasWavHeader
                              \/ call.ext = ".nam")
        ELSE (call.ret <=> /\ call.file.bytes.size >= MinSize
                           /\ (call.ext = ".wav" => HasWavHeader)
                           /\ (call.ext = ".json" => call.file.bytes.tag1 = "JSON"))

ValidatorResultWitness ==
    /\ CalledOnFile
    /\ call.script = "mega"
    /\ call.path = "ir/CAB.WAV"
    /\ call.file.bytes.size = MinSize
    /\ call.file.bytes.tag1 = "RIFF"
    /\ call.file.bytes.tag2 = "WAVX"
    /\ ~call.ret

\* C18: the validator never raises: for a missing file, an unreadable file
\* or a file shorter than 12 bytes it returns False.
ValidatorNeverRaises ==
    call.op # "" => ~call.raised

(***************************************************************************)
(* Properties of a source task's walk (Spec).                              *)
(***************************************************************************)
\* The content does not pass the validator: it is shorter than the minimum,
\* or it is named .wav and does not open with RIFF....WAVE.
InvalidContent(ext, bytes) ==
    \/ bytes.size < MinSize
    \/ ext = ".wav" /\ ~(bytes.size >= HeaderLen /\ bytes.tag1 = "RIFF" /\ bytes.tag2 = "WAVE")

\* The file under the extraction directory has content that does not pass.
InvalidEntry(e) == e \in DOMAIN extracted /\ InvalidContent(ClassOf(e).ext, extracted[e])

\* The members of the archive of the task under way, as the walk met them.
Walked == {e \in DOMAIN extracted : e.name = Name(cur.repo)} \ cur.files

\* No invalid content of any archive is in the output tree or in the hash
\* index.
InvalidNeverKept ==
    \A e \in DOMAIN extracted :
        InvalidEntry(e) => /\ CopiesOf(sha256(extracted[e])) = {}
                          /\ sha256(extracted[e]) \notin DigestsOf(data)

\* At the end of a walk every valid file of the archive has its content in
\* the hash index and in the output tree (for a cache that has a hash index).
ValidAllIngested ==
    (pc = "task" /\ cur.files = {} /\ ~KeyError(data, "hashes")) =>
        \A e \in Walked :
            (ClassOf(e).ext \in VALID_EXT /\ ~InvalidEntry(e))
            => /\ sha256(extracted[e]) \in DigestsOf(data)
               /\ CopiesOf(sha256(extracted[e])) # {}

\* The turn of the walk on an invalid file changes neither the tree nor the
\* cache nor the count, and leaves the task in its walk with the other files
\* still to come.
InvalidSkipped ==
    \A e \in cur.files :
        (pc = "task" /\ e \notin cur'.files /\ InvalidEntry(e))
        => /\ tree' = tree
           /\ data' = data
           /\ organized' = organized
           /\ raised' = raised
           /\ pc' = "task"
           /\ cur' = [cur EXCEPT !.files = @ \ {e}]

\* C22: a file that fails is_valid is never copied into the output tree,
\* its digest never enters the hash index, and the walk goes on: every other
\* file of the archive is still taken through the ingest step.
InvalidDiscarded ==
    /\ [](InvalidNeverKept /\ ValidAllIngested)
    /\ [][InvalidSkipped]_vars

\* The walk of an archive with an invalid file is over: the invalid file was
\* met, and two valid files of the same archive are in the tree.
InvalidDiscardedWitness ==
    /\ pc = "task"
    /\ cur.files = {}
    /\ \E e \in Walked : InvalidEntry(e)
    /\ Cardinality({e \in Walked : ~InvalidEntry(e) /\ CopiesOf(sha256(extracted[e])) # {}}) = 2
    /\ organized >= 1

\* C23: when the extraction of a source's archive fails, nothing of that
\* source stays in the temporary extraction directory.  A task that walks
\* removes its directory when it ends, so between tasks the directory holds
\* no file at all, and a task walks only the members of its own archive.
PartialExtractionDiscarded ==
    /\ pc # "task" => DOMAIN extracted = {}
    /\ pc = "task" =>
           \A e \in cur.files :
               \E m \in Archive(cur.repo) : e.dir = m.dir /\ e.fn = m.fn /\ extracted[e] = m.bytes

\* A cache file that Cache.save wrote is still there after the step, with
\* every key and every digest it had, unless the step is the save of --fresh
\* (which empties the seen list).
CacheFileKept ==
    cacheFile.kind = "json" =>
        /\ cacheFile'.kind = "json"
        /\ DigestsOf(cacheFile.data) \subseteq DigestsOf(cacheFile'.data)
        /\ (pc # "init") => KeysOf(cacheFile.data) \subseteq KeysOf(cacheFile'.data)

\* C27: no phase of a run deletes the persisted cache: after cleanup_local
\* (tiers cleanup, validate and all) the file written by Cache.save exists
\* with its content.
CacheFileSurvives == [][CacheFileKept]_vars

\* The --fresh handling of main leaves the hash index as it was loaded.
FreshKeepsHashes ==
    (pc = "init" /\ fresh) => DigestsOf(data') = DigestsOf(data)

\* A --fresh run organizes no file whose content an earlier run ingested:
\* what it adds to the output tree is content the tree did not have.
FreshSkipsIngested ==
    (fresh /\ run > 1 /\ organized' = organized + 1) =>
        \A p \in DOMAIN tree' \ DOMAIN tree : CopiesOf(sha256(tree'[p])) = {}

\* C28: reset_for_expansion empties the seen list and leaves the hash index
\* unchanged, so a --fresh run over sources whose content was ingested
\* before fetches them again and organizes none of their files.
FreshOrganizesNothing == [][FreshKeepsHashes /\ FreshSkipsIngested]_vars

(***************************************************************************)
(* Properties of the releases tier (SpecReleases), continued.              *)
(***************************************************************************)
\* The key of every source whose task returned after its request is in the
\* seen list.
ReturnedIsMarked ==
    \A repo \in done : rel_cache_key(repo) \in KeysOf(data)

\* A later run without --fresh that loaded a saved cache file sends no
\* request for a source whose task returned in the run before.
NotFetchedAgain ==
    (run = 2 /\ prev.ended /\ ~fresh /\ loaded.kind = "json") => fetched \cap prev.done = {}

\* C29: every return of a source task past the already-seen exit leaves the
\* source's key in the seen list (also after a 404, a corrupt archive, a
\* network error), so the source is not fetched again in this run nor in a
\* later run that loads the saved cache.
FailedSourceNotRetried == ReturnedIsMarked /\ NotFetchedAgain

(***************************************************************************)
(* Properties of runs with an external cleanup pass (SpecStale).           *)
(***************************************************************************)
\* The digests of the cache file the run loaded.
LoadedDigests == IF loaded.kind = "json" THEN DigestsOf(loaded.data) ELSE {}

\* A digest the run loaded is in the index ever after, and every is_dup call
\* of the run on its content reported a duplicate: no miss, nothing copied,
\* whether or not a file with that content is still in the tree.
StaleDigestKept ==
    \A h \in LoadedDigests :
        /\ h \in DigestsOf(data)
        /\ h \in DOMAIN calls => (calls[h].miss = 0 /\ calls[h].placed = 0)

\* A step that deletes output files (cleanup_local, an external pass) leaves
\* the seen list and the hash index as they were.
DeletionKeepsCache ==
    (DOMAIN tree' # DOMAIN tree /\ DOMAIN tree' \subseteq DOMAIN tree) => data' = data

IndexedIsRetained ==
    pc \in {"phase", "final"} =>
        \A h \in DOMAIN calls : calls[h].miss >= 1 => CopiesOf(h) # {}

(***************************************************************************)
(* Properties of the placement of download_and_organize.py.                *)
(***************************************************************************)
\* A step that organizes a file adds a path to the output tree and leaves
\* every file that was there as it was.
WritesFreshPath ==
    organized' = organized + 1 =>
        /\ DOMAIN tree' # DOMAIN tree
        /\ \A p \in DOMAIN tree : p \in DOMAIN tree' /\ tree'[p] = tree[p]

\* C26: every ingest of download_and_organize.py writes to a destination
\* that did not exist before the write; none overwrites a file placed
\* earlier.
NeverOverwrites == [][WritesFreshPath]_vars

(***************************************************************************)
(* Properties of the classifier (SpecClassifier).                          *)
(***************************************************************************)
\* The text categorize looks at in the last call, and its file extension.
CategorizeText == lower(call.context \o " " \o call.filename)

CategorizeExt == lower(PathSuffix(call.filename))

\* The text has a word of the list of the script that was called.
HasBass == ContainsAny(CategorizeText, IF call.script = "mega" THEN BassWords ELSE BlitzBassWords)

HasAcoustic ==
    ContainsAny(CategorizeText, IF call.script = "mega" THEN AcousticWords ELSE BlitzAcousticWords)

HasRoom == ContainsAny(CategorizeText, IF call.script = "mega" THEN RoomWords ELSE BlitzRoomWords)

\* C19: the category is the first that applies, in the order: extension
\* .nam, a bass word, an acoustic word, a room or reverb word, else
\* IR_Guitarra; a text with a bass and a reverb word is IR_Bajo.
CategoryFirstMatch ==
    call.op = "categorize" =>
        /\ CategorizeExt = ".nam" => call.ret = "NAM_Capturas"
        /\ (CategorizeExt # ".nam" /\ HasBass) => call.ret = "IR_Bajo"
        /\ (CategorizeExt # ".nam" /\ ~HasBass /\ HasAcoustic) => call.ret = "IR_Acustica"
        /\ (CategorizeExt # ".nam" /\ ~HasBass /\ ~HasAcoustic /\ HasRoom)
               => call.ret = "IR_Utilidades"
        /\ (CategorizeExt # ".nam" /\ ~HasBass /\ ~HasAcoustic /\ ~HasRoom)
               => call.ret = "IR_Guitarra"
        /\ (call.context = "bass/svt/cab.wav" /\ call.filename = "cab.wav")
               => call.ret = "IR_Bajo"
        /\ (call.context = "hall_reverb_demo.wav" /\ CategorizeExt # ".nam")
               => call.ret = "IR_Utilidades"

CategoryFirstMatchWitness ==
    /\ call.op = "categorize"
    /\ call.script = "mega"
    /\ call.context = "bass/reverb/cab.wav"
    /\ call.filename = "hall_reverb_demo.wav"
    /\ HasBass
    /\ HasRoom
    /\ call.ret = "IR_Bajo"

\* The tokens of the list are in the text, one after the other in the order
\* of the list.
RECURSIVE InOrder(_, _)
InOrder(t, tokens) ==
    IF Len(tokens) = 0 THEN TRUE
    ELSE \E i \in 1..Len(t) :
            /\ StartsAt(t, i, tokens[1])
            /\ \A j \in 1..(i - 1) : ~StartsAt(t, j, tokens[1])
            /\ InOrder(SubSeq(t, i + Len(tokens[1]), Len(t)), Tail(tokens))

\* The last call was clean_filename on a context with the words of the
\* claim.
NamedFromJcm ==
    /\ call.op = "clean_filename"
    /\ Contains(call.context, "Marshall JCM800 4x12 V30 SM57 high gain")

\* What clean_filename finds in the last call: the brand, the model, the
\* cabinet, the mic and the style, "" for what it does not find.
Found ==
    LET stem == replace(replace(replace(DropBrackets(PathStem(call.filename)),
                                        " ", "_"), "-", "_"), ".", "_")
        full == lower(call.context \o "_" \o stem)
        brand == match(full, BRANDS)
    IN  <<brand, ModelLabel(full, brand, AppendIf(<<>>, brand)), match(full, CABS),
          match(full, MICS), ToneLabel(full)>>

ReturnedStem ==
    SubSeq(call.ret, 1, Len(call.ret) - Len(lower(PathSuffix(call.filename))))

\* C21: the stem clean_filename returns is not empty, has no two underscores
\* in a row and neither starts nor ends with an underscore.
StemWellFormed ==
    call.op = "clean_filename" =>
        /\ ReturnedStem # ""
        /\ ~Contains(ReturnedStem, "__")
        /\ ~StartsAt(ReturnedStem, 1, "_")
        /\ ~StartsAt(ReturnedStem, Len(ReturnedStem), "_")

(***************************************************************************)
(* Properties of the pool (SpecPool).                                      *)
(***************************************************************************)
\* No two sources of the phase have the same archive path: their tasks share
\* no temporary file.
DistinctNames ==
    \A r1, r2 \in fetched \cup todo : r1 # r2 => zip_path(r1) # zip_path(r2)

Walking(w) == workers[w].at \in {"walk", "hash", "record", "organize", "copy"}

\* C2: when workers call is_dup on files with the same bytes, exactly one
\* call returns False in every interleaving, and at most one copy of the
\* content is in the output tree (stated for tasks that share no temporary
\* file).
DedupConcurrent ==
    DistinctNames =>
        \A h \in DOMAIN calls :
            /\ calls[h].miss <= 1
            /\ Cardinality(CopiesOf(h)) <= 1

\* C9: when workers run organize_file for files of different content that
\* compute the same category and name, no two copies go to the same
\* destination: every copy made is a path of its own in the output tree
\* (stated for tasks that share no temporary file).
PlacementConcurrent ==
    (DistinctNames /\ pc = "pool") => Cardinality(DOMAIN tree) = organized

\* C10: a task extracts the archive it downloaded and walks only files of
\* its own extraction, also when another task of the pool is for a
\* repository of the same name.
TaskIsolation ==
    \A w \in Workers :
        Walking(w) =>
            /\ workers[w].from = workers[w].repo
            /\ \A e \in workers[w].files \cup ({workers[w].e} \ {NoEntry}) :
                  /\ e.branch = workers[w].branch
                  /\ \E m \in Archive(workers[w].repo) :
                        /\ e = Entry(Name(workers[w].repo), workers[w].branch, m)
                        /\ e \in DOMAIN extracted => extracted[e] = m.bytes

\* C11: the path stored for a digest is the path of the first file indexed
\* with that content: no later is_dup call on the same content changes the
\* entry (stated for tasks that share no temporary file).
FirstPathKept ==
    DistinctNames =>
        \A h \in DOMAIN calls :
            calls[h].miss >= 1 => data.hashes[h] = calls[h].first

(***************************************************************************)
(* Properties of the cache object on its own (SpecCache).                  *)
(***************************************************************************)
\* C12: a mark of a key that is already in the seen list leaves the list as
\* it was, and after any sequence of marks the list holds each key given
\* once, in the order in which the keys were first marked.
MarkIdempotent ==
    /\ (call.op # "" /\ InList(call.before, call.key)) => SeenList(data) = call.before
    /\ call.op # "" => SeenList(data) = call.order
    /\ \A i, j \in 1..Len(SeenList(data)) :
           SeenList(data)[i] = SeenList(data)[j] => i = j

MarkIdempotentWitness ==
    /\ call.op = "mark"
    /\ InList(call.before, call.key)
    /\ Len(call.before) = Cardinality(MarkKeys)
    /\ call.before[1] = call.key

SkipsProcessed ==
    (run = 2 /\ pc \in {"dao", "daotask"} /\ prev.ended) => fetched \cap prev.done = {}

=============================================================================
